---- MODULE Spec2Model ----
(***************************************************************************)
(* Model of the VLOven profile-driven temperature controller               *)
(* (VLOvenController.cpp, VLOvenController.h, VLOvenShield.cpp) and of the *)
(* sketch that drives it: profile catalog in EEPROM, boot, host commands.  *)
(*                                                                         *)
(* Representation                                                          *)
(*  - Temperatures are whole degrees C.  The envelope slope m_Slope is     *)
(*    kept in units of 1/SlopeDen degC/s and the setpoint m_PID_Setpoint   *)
(*    in units of 1/TempScale degC, so that                                *)
(*        m_StartTemp + m_Slope * (ElapsedPhaseTime / 1000.0)              *)
(*    is computed exactly (the code's floating point rounding is not       *)
(*    modelled).                                                           *)
(*  - millis() stamps are kept as the time elapsed since the stamp         *)
(*    (sincePhaseStart = millis() - m_PhaseStartTime, ...): the code only  *)
(*    ever uses the differences.  Each difference saturates at a value     *)
(*    past which no comparison the code makes on it can change.            *)
(*  - The PID_v1 library object is the record m_PID; Compute() yields any  *)
(*    output within the configured output limits.                          *)
(*  - The sensor average is a finite reading: it is fed from analogRead() *)
(*    by VLOvenShield::doCycle, which loop() calls before any command.     *)
(*  - The phase list pointer m_lpPhases is the sequence it points to; NULL *)
(*    is the empty sequence, the count is kept separately (m_PhasesCount). *)
(*  - The EEPROM is its cells, one byte each.  Records are laid out as the *)
(*    AVR build lays them out: int is 2 bytes little-endian, double is 4   *)
(*    bytes (kept as the two's complement of the whole number), no         *)
(*    padding.  An address past the end of the memory wraps around; that   *)
(*    it happened is recorded in EEPROM.outside.                           *)
(*  - malloc( 0 ) yields a block that is not NULL: one phase that was      *)
(*    never read, outside the count.                                       *)
(*  - Command responses are recorded in events, like the console events.   *)
(***************************************************************************)
EXTENDS Integers, Sequences, FiniteSets, TLC

VARIABLES
  oven,      \* the VLOvenController object (its data members)
  m_PID,     \* the PID member object of the controller
  shield,    \* the VLOvenShield object: sensor average and SSR duty cycle
  clock,     \* elapsed time since each millis() stamp the controller holds
  events,    \* console events emitted by the last operation, in order
  duties,    \* setHeaterDuty() arguments of the last operation, in order
  hist,      \* bookkeeping about the run so far (last operation, ...)
  EEPROM,    \* the EEPROM of the board: its cells
  sketch     \* the globals of the sketch, and where setup() / loop() stands

vars == <<oven, m_PID, shield, clock, events, duties, hist, EEPROM, sketch>>

-----------------------------------------------------------------------------
(* Program constants *)

PID_OUTPUT_LIMIT_MAX == 100
PID_OUTPUT_LIMIT_MIN == 0
PID_SAMPLE_TIME == 250
PROFILE_SAMPLING_TIME == 50
TEMPLOGSAMPLING_TIME == 500
MAXIMUM_TEMPERATURE_SLOPE == 100

\* PID_v1 constructor defaults, in force until startPhase() configures the PID
PID_DEFAULT_LIMIT_MAX == 255
PID_DEFAULT_SAMPLE_TIME == 100

\* default PID gains installed by setup() (PID_KP, PID_KI, PID_KD as one value)
PID_KP == 300

\* configured slope of the default Cooling phase, -3.0 degC/s
CoolingSlope == 0 - 3

NULL == <<>>

-----------------------------------------------------------------------------
(* Bounds of the model *)

\* lowest temperature (sensor reading, EndTemp)
MinTemp == 20
\* temperatures range over MinTemp .. MinTemp+TempSpan
TempSpan == 2
\* the positive phase duration, seconds
MaxDuration == 1
\* the positive configured slope, degC/s
RampSlope == 1
\* Start() calls followed
MaxStarts == 2
\* setPhases() calls with a phase list followed
MaxLists == 1
\* EEPROM.length(), bytes
EEPROMLength == 300
\* the largest block malloc() grants, bytes
HeapBytes == 512
\* phase time for which the sketch is followed while a profile runs, ms
MaxRunTime == 250
\* console commands followed after power-on
MaxCmds == 2
\* EEPROMAppendProfile() calls followed on a catalog
MaxAppends == 3
\* console commands followed after a power-on without signature
MaxDialogCmds == 3
\* the largest index LoadProfileHeader() is asked for
MaxIndex == 4

MaxTemp == MinTemp + TempSpan
TempSet == {MinTemp, MaxTemp}
EndTempSet == TempSet
DurationSet == {0 - 1, 0, MaxDuration}

\* time that passes between two calls of doCycle() while a profile runs, ms
TickSteps == {250, 500}

\* fixed point: slope unit is 1/SlopeDen degC/s, setpoint unit 1/TempScale degC
SlopeDen == MaxDuration
TempScale == 1000 * SlopeDen

Max2(a, b) == IF a >= b THEN a ELSE b
Min2(a, b) == IF a <= b THEN a ELSE b

\* the longest ramp: TempSpan degrees at the configured slope, whole seconds
MaxRamp == (TempSpan + RampSlope - 1) \div RampSlope

\* Past MaxElapsed ms of phase time every ramp has crossed its EndTemp and
\* every duration has elapsed: no comparison in doCycle() changes any more.
MaxElapsed == 1000 * Max2(MaxDuration, MaxRamp) + PROFILE_SAMPLING_TIME

\* While the controller is idle, doCycle() calls are followed IdleStep ms apart
IdleStep == MaxElapsed

\* The time since process start is only reported (pid[pdt=..], the LCD); it
\* is followed up to MaxProcessElapsed ms.
MaxProcessElapsed == 250

Phase(e, s, d) == [EndTemp |-> e, Slope |-> s, Duration |-> d]

\* What a read of m_lpPhases[ m_CurrentPhase ] outside the list may yield;
\* doCycle() reads the EndTemp and the Duration of it.
PhaseSet == {Phase(e, 0, d) : e \in EndTempSet, d \in DurationSet}

\* The phase lists handed to setPhases(), shaped like the default profiles:
\* ramps with a configured slope (Preheat, Cooling), holds with a duration
\* (Soak), an indefinite hold (Hot), and phases that leave the slope to the
\* controller.
ProfileSet ==
  { <<Phase(MaxTemp, RampSlope, 0), Phase(MinTemp, CoolingSlope, 0)>>,
    <<Phase(MaxTemp, 0, MaxDuration), Phase(MaxTemp, 0, 0 - 1)>>,
    <<Phase(MaxTemp, RampSlope, MaxDuration)>>,
    <<Phase(MinTemp, RampSlope, 0)>>,
    <<Phase(MaxTemp, 0, 0)>>,
    <<Phase(MinTemp, 0, 0)>>,
    <<Phase(MinTemp, 0, MaxDuration)>> }

-----------------------------------------------------------------------------
(* The world an operation acts on: one record holding every variable, so   *)
(* that the methods compose as in the code.                                *)

World ==
  [oven |-> oven, pid |-> m_PID, shield |-> shield, clock |-> clock,
   events |-> <<>>, duties |-> <<>>, ret |-> "void",
   EEPROM |-> EEPROM, sketch |-> sketch]

Emit(w, e) == [w EXCEPT !.events = Append(@, e)]

\* VLOvenShield::readTC
readTC(w) == w.shield.m_Average

\* VLOvenShield::setHeaterDuty
setHeaterDuty(w, Duty) ==
  [w EXCEPT !.shield.Duty = Duty, !.duties = Append(@, Duty)]

\* VLOvenController::SendOvenState
SendOvenState(w) ==
  Emit(w, [ev |-> "oven", on |-> IF w.oven.m_Running THEN 1 ELSE 0])

\* VLOvenController::SendPhaseInfo, inside beginEvent/endEvent
SendPhaseInfo(w, lpPhase) ==
  Emit(w, [ev |-> "phase", end |-> lpPhase.EndTemp, m |-> lpPhase.Slope,
           t |-> lpPhase.Duration])

-----------------------------------------------------------------------------
(* PID_v1 library object, as the controller uses it *)

Clamp(x, lo, hi) == IF x > hi THEN hi ELSE IF x < lo THEN lo ELSE x

\* PID::SetOutputLimits: ignored when Min >= Max; clamps the output when in auto
PID_SetOutputLimits(w, Min, Max) ==
  IF Min >= Max THEN w
  ELSE [w EXCEPT !.pid.outMin = Min, !.pid.outMax = Max,
                 !.oven.m_PID_Output =
                    IF w.pid.inAuto THEN Clamp(@, Min, Max) ELSE @]

\* PID::SetSampleTime
PID_SetSampleTime(w, NewSampleTime) ==
  IF NewSampleTime > 0 THEN [w EXCEPT !.pid.SampleTime = NewSampleTime] ELSE w

\* PID::SetTunings (the gains are one value: the kp, ki, kd triple)
PID_SetTunings(w, k) == [w EXCEPT !.pid.gains = k]

\* PID::SetMode
PID_SetMode(w, auto) == [w EXCEPT !.pid.inAuto = auto]

\* PID::Compute returns true iff in automatic mode and the sample time elapsed
PID_Computes(w) ==
  w.pid.inAuto /\ w.clock.sincePIDCompute >= w.pid.SampleTime

\* the output Compute() stores: a value within the output limits (choice k)
PID_Output(w, k) == IF k = 0 THEN w.pid.outMin ELSE w.pid.outMax

PID_Compute(w, k) ==
  IF PID_Computes(w)
  THEN [w EXCEPT !.oven.m_PID_Output = PID_Output(w, k),
                 !.clock.sincePIDCompute = 0]
  ELSE w

-----------------------------------------------------------------------------
(* VLOvenController methods *)

\* slope configured at phase start, in 1/SlopeDen degC/s
PhaseSlope(lpCurrentPhase, StartTemp) ==
  IF lpCurrentPhase.Slope > 0
  THEN lpCurrentPhase.Slope * SlopeDen
  ELSE IF lpCurrentPhase.Duration > 0
  THEN ((lpCurrentPhase.EndTemp - StartTemp) * SlopeDen) \div lpCurrentPhase.Duration
  ELSE IF lpCurrentPhase.EndTemp > StartTemp
       THEN MAXIMUM_TEMPERATURE_SLOPE * SlopeDen
       ELSE 0 - MAXIMUM_TEMPERATURE_SLOPE * SlopeDen

\* ConfigurePID without the SetOutputLimits call
ConfigurePID_KeepsLimits(w) ==
  PID_SetMode(
    PID_SetTunings(PID_SetSampleTime(w, PID_SAMPLE_TIME), w.oven.m_PIDTunings),
    TRUE)

\* the PID configuration made at every phase start
ConfigurePID(w) ==
  PID_SetMode(
    PID_SetTunings(
      PID_SetSampleTime(
        PID_SetOutputLimits(w, PID_OUTPUT_LIMIT_MIN, PID_OUTPUT_LIMIT_MAX),
        PID_SAMPLE_TIME),
      w.oven.m_PIDTunings),
    TRUE)

\* the end-of-process branch of startPhase
EndOfProcess(w) ==
  SendOvenState([w EXCEPT !.oven.m_Running = FALSE, !.oven.m_CurrentPhase = 0 - 1])

\* VLOvenController::startPhase
startPhase(w, PhaseIndex) ==
  IF (PhaseIndex < 0) \/ (PhaseIndex >= w.oven.m_PhasesCount)
  THEN EndOfProcess(w)
  ELSE
    LET lpCurrentPhase == w.oven.m_lpPhases[PhaseIndex + 1]
        StartTemp == readTC(w)
        w1 == [w EXCEPT !.oven.m_CurrentPhase = PhaseIndex,
                        !.oven.m_StartTemp = StartTemp,
                        !.oven.m_Slope = PhaseSlope(lpCurrentPhase, StartTemp),
                        !.oven.m_PID_Setpoint = StartTemp * TempScale]
        w2 == ConfigurePID(w1)
        w3 == [w2 EXCEPT !.clock.sincePhaseStart = 0,
                         !.clock.sinceProfileSample = 0]
    IN SendPhaseInfo(w3, lpCurrentPhase)

\* Stop without m_PID.SetMode( MANUAL )
Stop_KeepsMode(w) ==
  SendOvenState([setHeaterDuty(w, 0) EXCEPT !.oven.m_Running = FALSE])

\* Stop without m_Running = false
Stop_KeepsRunning(w) ==
  SendOvenState(setHeaterDuty(PID_SetMode(w, FALSE), 0))

\* VLOvenController::Stop
Stop(w) ==
  SendOvenState(
    [setHeaterDuty(PID_SetMode(w, FALSE), 0) EXCEPT !.oven.m_Running = FALSE])

\* VLOvenController::setPhases
setPhases(w, lpPhases, Count) ==
  LET w1 == Stop(w)
      w2 == [w1 EXCEPT !.oven.m_lpPhases = lpPhases, !.oven.m_CurrentPhase = 0]
      w3 == setHeaterDuty(w2, 0)
  IN [w3 EXCEPT !.oven.m_PhasesCount = Count, !.oven.m_Running = FALSE]

\* VLOvenController::Start
Start(w) ==
  IF ~w.oven.m_Running /\ (w.oven.m_lpPhases # NULL)
  THEN LET w1 == [w EXCEPT !.clock.sinceProcessStart = 0]
           w2 == startPhase(w1, 0)
       IN SendOvenState([w2 EXCEPT !.oven.m_Running = TRUE])
  ELSE w

\* VLOvenController::SetPIDTunings
SetPIDTunings(w, k) == [w EXCEPT !.oven.m_PIDTunings = k]

\* VLOvenController::getPhaseDuration
getPhaseDuration(w) == IF w.oven.m_Running THEN w.clock.sincePhaseStart ELSE 0

\* VLOvenController::getProcessDuration
getProcessDuration(w) == IF w.oven.m_Running THEN w.clock.sinceProcessStart ELSE 0

-----------------------------------------------------------------------------
(* VLOvenController::doCycle *)

\* millis() moves on by dt and m_Shield.doCycle() updates the sensor average
Advance(w, dt, t) ==
  [w EXCEPT
     !.clock.sincePhaseStart = Min2(@ + dt, MaxElapsed),
     !.clock.sinceProcessStart = Min2(@ + dt, MaxProcessElapsed),
     !.clock.sinceProfileSample = Min2(@ + dt, PROFILE_SAMPLING_TIME),
     !.clock.sinceTemperatureSample = Min2(@ + dt, TEMPLOGSAMPLING_TIME),
     !.clock.sincePIDCompute = Min2(@ + dt, PID_SAMPLE_TIME),
     !.shield.m_Average = t]

\* m_CurrentPhase indexes an element of the phase list
IndexInList(w) ==
  (w.oven.m_CurrentPhase >= 0) /\ (w.oven.m_CurrentPhase < Len(w.oven.m_lpPhases))

\* &m_lpPhases[ m_CurrentPhase ]: outside the list the read yields anything (g)
CurrentPhaseOf(w, g) ==
  IF IndexInList(w) THEN w.oven.m_lpPhases[w.oven.m_CurrentPhase + 1] ELSE g

\* the profile envelope gate
ProfileSampleDue(w) == PROFILE_SAMPLING_TIME <= w.clock.sinceProfileSample

\* setpoint adjustment along the envelope, with the clamp at EndTemp
Envelope(w, lpCurrentPhase) ==
  IF w.oven.m_Slope = 0 THEN w
  ELSE
    LET Setpoint == w.oven.m_StartTemp * TempScale
                      + w.oven.m_Slope * w.clock.sincePhaseStart
        End == lpCurrentPhase.EndTemp * TempScale
        Reached ==
          \/ (w.oven.m_StartTemp < lpCurrentPhase.EndTemp) /\ (Setpoint > End)
          \/ (w.oven.m_StartTemp > lpCurrentPhase.EndTemp) /\ (Setpoint < End)
    IN IF Reached
       THEN [w EXCEPT !.oven.m_PID_Setpoint = End, !.oven.m_Slope = 0]
       ELSE [w EXCEPT !.oven.m_PID_Setpoint = Setpoint]

\* the phase end condition with the temperature test also for Duration < 0
PhaseEnds_NegativeAsZero(w, lpCurrentPhase) ==
  /\ w.oven.m_Slope = 0
  /\ \/ /\ lpCurrentPhase.Duration > 0
        /\ (getPhaseDuration(w) \div 1000) >= lpCurrentPhase.Duration
     \/ /\ lpCurrentPhase.Duration <= 0
        /\ \/ /\ w.oven.m_StartTemp <= lpCurrentPhase.EndTemp
              /\ w.oven.m_PID_Input >= lpCurrentPhase.EndTemp
           \/ /\ w.oven.m_StartTemp >= lpCurrentPhase.EndTemp
              /\ w.oven.m_PID_Input <= lpCurrentPhase.EndTemp

\* the phase end condition comparing milliseconds with the Duration seconds
PhaseEnds_Millis(w, lpCurrentPhase) ==
  /\ w.oven.m_Slope = 0
  /\ \/ /\ lpCurrentPhase.Duration > 0
        /\ getPhaseDuration(w) >= lpCurrentPhase.Duration
     \/ /\ lpCurrentPhase.Duration = 0
        /\ \/ /\ w.oven.m_StartTemp <= lpCurrentPhase.EndTemp
              /\ w.oven.m_PID_Input >= lpCurrentPhase.EndTemp
           \/ /\ w.oven.m_StartTemp >= lpCurrentPhase.EndTemp
              /\ w.oven.m_PID_Input <= lpCurrentPhase.EndTemp

\* the phase end condition without the test of m_Slope
PhaseEnds_AnySlope(w, lpCurrentPhase) ==
  \/ /\ lpCurrentPhase.Duration > 0
     /\ (getPhaseDuration(w) \div 1000) >= lpCurrentPhase.Duration
  \/ /\ lpCurrentPhase.Duration = 0
     /\ \/ /\ w.oven.m_StartTemp <= lpCurrentPhase.EndTemp
           /\ w.oven.m_PID_Input >= lpCurrentPhase.EndTemp
        \/ /\ w.oven.m_StartTemp >= lpCurrentPhase.EndTemp
           /\ w.oven.m_PID_Input <= lpCurrentPhase.EndTemp

\* the phase end condition, evaluated when m_Slope == 0.0
PhaseEnds(w, lpCurrentPhase) ==
  /\ w.oven.m_Slope = 0
  /\ \/ /\ lpCurrentPhase.Duration > 0
        /\ (getPhaseDuration(w) \div 1000) >= lpCurrentPhase.Duration
     \/ /\ lpCurrentPhase.Duration = 0
        /\ \/ /\ w.oven.m_StartTemp <= lpCurrentPhase.EndTemp
              /\ w.oven.m_PID_Input >= lpCurrentPhase.EndTemp
           \/ /\ w.oven.m_StartTemp >= lpCurrentPhase.EndTemp
              /\ w.oven.m_PID_Input <= lpCurrentPhase.EndTemp

\* startPhase( ++m_CurrentPhase )
NextPhase(w) ==
  startPhase([w EXCEPT !.oven.m_CurrentPhase = @ + 1], w.oven.m_CurrentPhase + 1)

\* the body of  if (PROFILE_SAMPLING_TIME <= (Now - m_ProfileSampleTime))
ProfileSample(w, g) ==
  LET lpCurrentPhase == CurrentPhaseOf(w, g)
      w1 == [w EXCEPT !.clock.sinceProfileSample = 0]
      w2 == Envelope(w1, lpCurrentPhase)
  IN IF PhaseEnds(w2, lpCurrentPhase) THEN NextPhase(w2) ELSE w2

\* the pid[...] event
SendPID(w) ==
  Emit(w, [ev |-> "pid", pdt |-> getProcessDuration(w),
           tmp |-> w.oven.m_PID_Input, slp |-> w.oven.m_Slope,
           spt |-> w.oven.m_PID_Setpoint, out |-> w.oven.m_PID_Output])

\* if (m_PID.Compute()) { setHeaterDuty( m_PID_Output ); send pid[...] }
RunPID(w, k) ==
  IF PID_Computes(w)
  THEN LET w1 == PID_Compute(w, k)
       IN SendPID(setHeaterDuty(w1, w1.oven.m_PID_Output))
  ELSE w

\* the idle branch: the temperature log gate (the event itself is commented out)
IdleCycle(w) ==
  IF TEMPLOGSAMPLING_TIME <= w.clock.sinceTemperatureSample
  THEN [w EXCEPT !.clock.sinceTemperatureSample = 0]
  ELSE w

\* doCycle computing on the input of an earlier cycle
doCycle_StaleInput(w, g, k) ==
  IF w.oven.m_Running
  THEN LET w2 == IF ProfileSampleDue(w) THEN ProfileSample(w, g) ELSE w
       IN RunPID(w2, k)
  ELSE IdleCycle(w)

\* doCycle after m_Shield.doCycle()
doCycle(w, g, k) ==
  IF w.oven.m_Running
  THEN LET w1 == [w EXCEPT !.oven.m_PID_Input = readTC(w)]
           w2 == IF ProfileSampleDue(w1) THEN ProfileSample(w1, g) ELSE w1
       IN RunPID(w2, k)
  ELSE IdleCycle(w)

\* whether this doCycle calls startPhase( ++m_CurrentPhase )
CycleEndsPhase(w, g) ==
  LET w1 == [w EXCEPT !.oven.m_PID_Input = readTC(w)]
      lpCurrentPhase == CurrentPhaseOf(w1, g)
  IN /\ w.oven.m_Running
     /\ ProfileSampleDue(w1)
     /\ PhaseEnds(Envelope(w1, lpCurrentPhase), lpCurrentPhase)

-----------------------------------------------------------------------------
(* State after construction (static objects are zero-initialised) and after *)
(* setup() has installed the default PID gains.                             *)

\* no phase: the value of a phase record where none was read
NoPhase == Phase(0, 0, 0)

\* the controller, the shield and the console after construction, with the
\* PID gains k installed
ControllerInit(k) ==
  /\ oven = [m_lpPhases |-> NULL, m_CurrentPhase |-> 0, m_PhasesCount |-> 0,
             m_Running |-> FALSE, m_PID_Setpoint |-> 0, m_PID_Input |-> 0,
             m_PID_Output |-> 0, m_Slope |-> 0, m_StartTemp |-> 0,
             m_PIDTunings |-> k]
  /\ m_PID = [inAuto |-> FALSE, outMin |-> 0, outMax |-> PID_DEFAULT_LIMIT_MAX,
              SampleTime |-> PID_DEFAULT_SAMPLE_TIME, gains |-> 0]
  /\ shield \in [m_Average : TempSet, Duty : {0}]
  /\ clock = [sincePhaseStart |-> 0, sinceProcessStart |-> 0,
              sinceProfileSample |-> 0, sinceTemperatureSample |-> 0,
              sincePIDCompute |-> PID_DEFAULT_SAMPLE_TIME]
  /\ events = <<>>
  /\ duties = <<>>
  /\ hist = [op |-> "init", ret |-> "void", arg |-> 0, cmds |-> 0, starts |-> 0,
             lists |-> 0, held |-> "none",
             wasRunning |-> FALSE, stopped |-> FALSE, completed |-> FALSE,
             transitioned |-> FALSE, sampled |-> FALSE,
             ElapsedPhaseTime |-> 0, lpCurrentPhase |-> NoPhase]

\* the statics of the sketch are zero-initialised
NoProfile ==
  [Header |-> [Name |-> [i \in 1 .. 20 |-> 0], PhasesCount |-> 0],
   lpPhases |-> NULL]

\* the controller alone: setup() has installed the default gains, no EEPROM
\* is looked at
Init ==
  /\ ControllerInit(PID_KP)
  /\ EEPROM = [cells |-> <<>>, outside |-> FALSE]
  /\ sketch = [pc |-> "loop", Result |-> FALSE, m_CurrentProfileIndex |-> 0,
               m_ActiveProfile |-> NoProfile]

\* the operation's outcome becomes the next state
Commit(w, h) ==
  /\ hist' = h
  /\ oven' = w.oven
  /\ m_PID' = w.pid
  /\ shield' = w.shield
  /\ clock' = w.clock
  /\ events' = w.events
  /\ duties' = w.duties
  /\ EEPROM' = w.EEPROM
  /\ sketch' = w.sketch

Bool(b) == IF b THEN "true" ELSE "false"

\* bookkeeping of an operation other than doCycle
Called(name, w) ==
  [hist EXCEPT !.op = name, !.ret = "void", !.arg = 0,
               !.held = IF w.oven.m_lpPhases = NULL THEN "none" ELSE @,
               !.wasRunning = oven.m_Running,
               !.transitioned = FALSE, !.sampled = FALSE,
               !.ElapsedPhaseTime = 0, !.lpCurrentPhase = NoPhase]

\* what the read of m_lpPhases[ m_CurrentPhase ] may yield in this cycle
PhaseReads(w) ==
  IF IndexInList(w) \/ ~w.oven.m_Running THEN {Phase(MinTemp, 0, 0)} ELSE PhaseSet

\* the choices of the PID output in this cycle
OutputChoices(w, g) ==
  IF PID_Computes(w) \/ CycleEndsPhase(w, g) THEN 0 .. 1 ELSE {0}

\* loop(): time passes, then m_Controller.doCycle()
DoCycle ==
  \E dt \in (IF oven.m_Running THEN TickSteps ELSE {IdleStep}), t \in TempSet :
    \E w0 \in {Advance(World, dt, t)} :
      \E g \in PhaseReads(w0) :
        \E k \in OutputChoices(w0, g) :
          \E w \in {doCycle(w0, g, k)} :
            \E sampled \in {w0.oven.m_Running /\ ProfileSampleDue(w0)} :
              Commit(w, [hist EXCEPT
                !.op = "doCycle", !.ret = "void", !.arg = 0,
                !.wasRunning = oven.m_Running,
                !.transitioned = CycleEndsPhase(w0, g),
                !.sampled = sampled,
                !.ElapsedPhaseTime =
                   IF w0.oven.m_Running THEN w0.clock.sincePhaseStart ELSE 0,
                !.lpCurrentPhase =
                   IF sampled THEN CurrentPhaseOf(w0, g) ELSE NoPhase,
                !.completed = @ \/ (w0.oven.m_Running /\ ~w.oven.m_Running)])

\* m_Controller.Start()
StartOp ==
  \E w \in {Start(World)} :
    \E started \in {~oven.m_Running /\ (oven.m_lpPhases # NULL)} :
      /\ hist.starts < MaxStarts
      /\ Commit(w, [Called("Start", w) EXCEPT
                      !.ret = Bool(w.oven.m_Running),
                      !.starts = @ + 1,
                      !.stopped = @ /\ ~started,
                      !.completed = @ /\ ~started])

\* m_Controller.Stop()
StopOp ==
  \E w \in {Stop(World)} :
    Commit(w, [Called("Stop", w) EXCEPT !.stopped = TRUE])

\* m_Controller.setPhases( lpPhases, Count ), lpPhases a phase list
SetPhases ==
  \E lpPhases \in ProfileSet :
    \E Count \in 0 .. Len(lpPhases) :
      \E w \in {setPhases(World, lpPhases, Count)} :
        /\ hist.lists < MaxLists
        /\ Commit(w, [Called("setPhases", w) EXCEPT
                        !.lists = @ + 1, !.stopped = TRUE])

\* m_Controller.setPhases( NULL, 0 )
SetPhasesNull ==
  \E w \in {setPhases(World, NULL, 0)} :
    Commit(w, [Called("setPhasesNull", w) EXCEPT !.stopped = TRUE])

Next == DoCycle \/ StartOp \/ StopOp \/ SetPhases \/ SetPhasesNull

Spec == Init /\ [][Next]_vars

\* A profile is run and nobody stops it; loop() calls doCycle() over and over
RunNext == DoCycle \/ StartOp \/ SetPhases

RunSpec == Init /\ [][RunNext]_vars /\ WF_vars(DoCycle)

\* the gains a caller hands to SetPIDTunings(): the defaults and another triple
TuningSet == {PID_KP, 2 * PID_KP}

\* m_Controller.SetPIDTunings( kp, ki, kd )
SetTunings ==
  \E k \in TuningSet :
    \E w \in {SetPIDTunings(World, k)} :
      Commit(w, [Called("SetPIDTunings", w) EXCEPT !.arg = k])

\* A profile is run while the gains are set at any moment
TuneNext == DoCycle \/ StartOp \/ SetPhases \/ SetTunings

TuneSpec == Init /\ [][TuneNext]_vars

-----------------------------------------------------------------------------
(* The sketch: data layout of the profiles catalog kept in EEPROM          *)

PROFILE_NAME_LENGTH == 20
EEPROM_SIGNATURE_LENGTH == 9
EEPROM_SIGNATURE_OFFSET == 0
MAX_PHASENAME_LEN == 11

\* sizeof(int) and sizeof(double) of the AVR build the sketch is written for
SizeofInt == 2
SizeofDouble == 4

EEPROM_APPDATA_OFFSET == EEPROM_SIGNATURE_OFFSET + EEPROM_SIGNATURE_LENGTH

\* sizeof(ProfileHeader_t), sizeof(VLOvenControllerPhase_t)
SizeofHeader == PROFILE_NAME_LENGTH + SizeofInt
SizeofPhase == MAX_PHASENAME_LEN + 2 * SizeofDouble + SizeofInt

\* an int of the build: 16 bits, two's complement
U16(x) == x % 65536
Int16(x) == IF U16(x) >= 32768 THEN U16(x) - 65536 ELSE U16(x)

\* a char array of n bytes initialised with the string s (zero filled)
Chars(s, n) == [i \in 1 .. n |-> IF i <= Len(s) THEN s[i] ELSE 0]

\* the bytes of an int in memory (little endian)
IntBytes(x) == <<U16(x) % 256, U16(x) \div 256>>
IntValue(b) == Int16(b[1] + 256 * b[2])

\* the bytes of a double in memory: the whole number it holds, as a 32 bit
\* two's complement (the sketch only ever copies these bytes)
DoubleBytes(x) ==
  LET y == IF x >= 0 THEN x ELSE (x + 2147483647) + 1
  IN <<y % 256, (y \div 256) % 256, (y \div 65536) % 256,
       (y \div 16777216) + (IF x >= 0 THEN 0 ELSE 128)>>
DoubleValue(b) ==
  LET y == b[1] + 256 * b[2] + 65536 * b[3] + 16777216 * (b[4] % 128)
  IN IF b[4] >= 128 THEN (y - 2147483647) - 1 ELSE y

\* ProfileHeader_t and VLOvenControllerPhase_t values
Header(Name, PhasesCount) == [Name |-> Name, PhasesCount |-> PhasesCount]
NamedPhase(Name, e, s, d) ==
  [Name |-> Chars(Name, MAX_PHASENAME_LEN), EndTemp |-> e, Slope |-> s,
   Duration |-> d]

\* the memory image of a header and of a phase
HeaderBytes(h) == h.Name \o IntBytes(h.PhasesCount)
PhaseBytes(p) ==
  p.Name \o DoubleBytes(p.EndTemp) \o DoubleBytes(p.Slope) \o IntBytes(p.Duration)

\* the header and the phase a memory image holds
HeaderOf(b) ==
  Header(SubSeq(b, 1, PROFILE_NAME_LENGTH),
         IntValue(SubSeq(b, PROFILE_NAME_LENGTH + 1, SizeofHeader)))
PhaseOf(b) ==
  [Name |-> SubSeq(b, 1, MAX_PHASENAME_LEN),
   EndTemp |-> DoubleValue(SubSeq(b, MAX_PHASENAME_LEN + 1,
                                  MAX_PHASENAME_LEN + SizeofDouble)),
   Slope |-> DoubleValue(SubSeq(b, MAX_PHASENAME_LEN + SizeofDouble + 1,
                                MAX_PHASENAME_LEN + 2 * SizeofDouble)),
   Duration |-> IntValue(SubSeq(b, MAX_PHASENAME_LEN + 2 * SizeofDouble + 1,
                                SizeofPhase))]

RECURSIVE Flatten(_)
\* the memory image of an array
Flatten(ss) == IF ss = <<>> THEN <<>> ELSE Head(ss) \o Flatten(Tail(ss))

\* DefaultSignature: "VLReflow\0"
DefaultSignature == <<86, 76, 82, 101, 102, 108, 111, 119, 0>>

\* OVENCONTROLLER_PHASES: "Heating", "Hot"
OVENCONTROLLER_PHASES ==
  << NamedPhase(<<72, 101, 97, 116, 105, 110, 103>>, 50, 2, 0),
     NamedPhase(<<72, 111, 116>>, 50, 0, 0 - 1) >>

\* PBFREEREFLOWCONTROLLER_PHASES: "Preheat-1", "Preheat-2", "Soak-1",
\* "Soak-2", "Reflow-1", "Reflow-1", "Cooling", "Done(HOT)"
PBFREEREFLOWCONTROLLER_PHASES ==
  << NamedPhase(<<80, 114, 101, 104, 101, 97, 116, 45, 49>>, 50, 2, 0),
     NamedPhase(<<80, 114, 101, 104, 101, 97, 116, 45, 50>>, 150, 2, 0),
     NamedPhase(<<83, 111, 97, 107, 45, 49>>, 200, 0, 100),
     NamedPhase(<<83, 111, 97, 107, 45, 50>>, 217, 2, 0),
     NamedPhase(<<82, 101, 102, 108, 111, 119, 45, 49>>, 245, 0, 20),
     NamedPhase(<<82, 101, 102, 108, 111, 119, 45, 49>>, 217, 0, 20),
     NamedPhase(<<67, 111, 111, 108, 105, 110, 103>>, 100, 0 - 3, 0),
     NamedPhase(<<68, 111, 110, 101, 40, 72, 79, 84, 41>>, 50, 0 - 10, 0) >>

\* OVENCONTROLLER_PROFILEHEADER: "Oven Controller"
OVENCONTROLLER_PROFILEHEADER ==
  Header(Chars(<<79, 118, 101, 110, 32, 67, 111, 110, 116, 114, 111, 108, 108,
                 101, 114>>, PROFILE_NAME_LENGTH),
         Len(OVENCONTROLLER_PHASES))

\* PBFREEREFLOWCONTROLLER_PROFILEHEADER: "PbFree - Reflow"
PBFREEREFLOWCONTROLLER_PROFILEHEADER ==
  Header(Chars(<<80, 98, 70, 114, 101, 101, 32, 45, 32, 82, 101, 102, 108, 111,
                 119>>, PROFILE_NAME_LENGTH),
         Len(PBFREEREFLOWCONTROLLER_PHASES))

-----------------------------------------------------------------------------
(* The EEPROM library object, as the sketch uses it *)

\* EEPROM.length()
EEPROM_length == EEPROMLength

\* the cell an address designates: the address bits past the size of the
\* memory are ignored, so that an address past the end wraps around
EEPROM_cell(a) == a % EEPROM_length

\* EEPROM.get / EEPROM.read: the n bytes at address a
EEPROM_get(w, a, n) == [i \in 1 .. n |-> w.EEPROM.cells[EEPROM_cell(a + i - 1)]]

\* EEPROM.put / EEPROM.write: the bytes b to address a, one after the other;
\* 'outside' records that an address outside [0, length) was written
EEPROM_put(w, a, b) ==
  LET n == Len(b)
      First(x) == ((x - a) % EEPROM_length) + 1
      Last(x) == First(x) + EEPROM_length * ((n - First(x)) \div EEPROM_length)
  IN [w EXCEPT
        !.EEPROM.cells =
           [x \in DOMAIN @ |-> IF First(x) > n THEN @[x] ELSE b[Last(x)]],
        !.EEPROM.outside = @ \/ ((n > 0) /\ ((a < 0) \/ (a + n > EEPROM_length)))]

-----------------------------------------------------------------------------
(* The sketch: catalog functions *)

\* malloc( PhasesCount * sizeof(VLOvenControllerPhase_t) ) returns a block
AllocSucceeds(PhasesCount) == U16(PhasesCount * SizeofPhase) <= HeapBytes

\* the content of a phase of a block that was never written
UnreadPhase == NamedPhase(<<>>, 0, 0, 0)

\* the scan condition  Offset < (EEPROM.length() - sizeof(Header)), unsigned
InCatalog(Offset) == U16(Offset) < EEPROM_length - SizeofHeader

\* the header stored at Offset
HeaderAt(w, Offset) == HeaderOf(EEPROM_get(w, Offset, SizeofHeader))

\* Offset += sizeof(Header) + Header.PhasesCount * sizeof(phase), as an int
NextOffset(Offset, H) == Int16(Offset + SizeofHeader + H.PhasesCount * SizeofPhase)

\* the scan loop of GetProfilesCount and FindFreeEEPROMStart is left at Offset
ScanEnds(w, Offset) == ~InCatalog(Offset) \/ (w.EEPROM.cells[Offset] = 0)

\* Header.PhasesCount of the header stored at Offset
PhasesCountAt(w, Offset) ==
  IntValue(EEPROM_get(w, Offset + PROFILE_NAME_LENGTH, SizeofInt))

\* a run of passes r = <<offset reached, headers counted>> after c headers
Counted(c, r) == <<r[1], c + r[2]>>

RECURSIVE ScanFrom(_, _, _), ScanThen(_, _, _)
\* at most n passes of the scan loop from Offset (the passes are split in
\* two runs, one after the other)
ScanFrom(w, Offset, n) ==
  IF ScanEnds(w, Offset) THEN <<Offset, 0>>
  ELSE IF n = 1
  THEN <<NextOffset(Offset, [PhasesCount |-> PhasesCountAt(w, Offset)]), 1>>
  ELSE ScanThen(w, ScanFrom(w, Offset, n \div 2), n - (n \div 2))

\* the run r followed by at most n more passes
ScanThen(w, r, n) == Counted(r[2], ScanFrom(w, r[1], n))

\* what the scan loop yields when it has run r: a loop not left is never left
ScanResult(w, r) ==
  [hangs |-> ~ScanEnds(w, r[1]), Count |-> r[2],
   Offset |-> IF InCatalog(r[1]) /\ ScanEnds(w, r[1]) THEN r[1] ELSE 0 - 1]

\* the scan loop from EEPROM_APPDATA_OFFSET; as many passes as the catalog
\* has offsets visit some offset twice
Scan(w) == ScanResult(w, ScanFrom(w, EEPROM_APPDATA_OFFSET, EEPROM_length))

\* GetProfilesCount: .Count (and .hangs: the loop never ends)
GetProfilesCount(w) == Scan(w)

\* FindFreeEEPROMStart: .Offset (and .hangs)
FindFreeEEPROMStart(w) == Scan(w)

\* EEPROMCheckSignature
EEPROMCheckSignature(w) ==
  EEPROM_get(w, EEPROM_SIGNATURE_OFFSET, EEPROM_SIGNATURE_LENGTH) = DefaultSignature

\* EEPROMFormat
EEPROMFormat(w) ==
  EEPROM_put(EEPROM_put(w, EEPROM_SIGNATURE_OFFSET, DefaultSignature),
             EEPROM_APPDATA_OFFSET,
             [i \in 1 .. EEPROM_length - EEPROM_APPDATA_OFFSET |-> 0])

\* the bytes CopyToEEPROM takes from the phases block of a profile
PhasesImage(Profile) ==
  Flatten([i \in 1 .. Min2(Max2(Profile.Header.PhasesCount, 0), Len(Profile.lpPhases))
             |-> PhaseBytes(Profile.lpPhases[i])])

\* EEPROMAppendProfile; the function returns no value where it succeeds, the
\* caller then finds any value (r)
EEPROMAppendProfile(w, lpProfile, r) ==
  LET Offset == FindFreeEEPROMStart(w).Offset
  IN IF Offset <= 0
     THEN [w EXCEPT !.ret = "false"]
     ELSE [EEPROM_put(EEPROM_put(w, Offset, HeaderBytes(lpProfile.Header)),
                      Offset + SizeofHeader, PhasesImage(lpProfile))
             EXCEPT !.ret = Bool(r)]

\* a ProfileInfo_t value
ProfileInfo(H, lpPhases) == [Header |-> H, lpPhases |-> lpPhases]

\* EEPROMRegisterDefaultProfiles
EEPROMRegisterDefaultProfiles(w) ==
  LET w1 == IF AllocSucceeds(OVENCONTROLLER_PROFILEHEADER.PhasesCount)
            THEN EEPROMAppendProfile(w,
                   ProfileInfo(OVENCONTROLLER_PROFILEHEADER, OVENCONTROLLER_PHASES),
                   FALSE)
            ELSE w
      w2 == IF AllocSucceeds(PBFREEREFLOWCONTROLLER_PROFILEHEADER.PhasesCount)
            THEN EEPROMAppendProfile(w1,
                   ProfileInfo(PBFREEREFLOWCONTROLLER_PROFILEHEADER,
                               PBFREEREFLOWCONTROLLER_PHASES),
                   FALSE)
            ELSE w1
  IN [w2 EXCEPT !.ret = "void"]

\* the loop of LoadProfileHeader without the Header.Name[0] == 0 test
RECURSIVE LoadHeaderFrom_NoSentinel(_, _, _, _)
LoadHeaderFrom_NoSentinel(w, Offset, ProfileIndex, H) ==
  IF ~InCatalog(Offset)
  THEN [Offset |-> 0 - 1, Header |-> H]
  ELSE IF ProfileIndex = 0
  THEN [Offset |-> Offset, Header |-> HeaderAt(w, Offset)]
  ELSE LoadHeaderFrom_NoSentinel(w, NextOffset(Offset, HeaderAt(w, Offset)),
                                 ProfileIndex - 1, HeaderAt(w, Offset))

RECURSIVE LoadHeaderFrom(_, _, _, _)
\* the loop of LoadProfileHeader: the offset found (or -1) and what is left
\* in Header
LoadHeaderFrom(w, Offset, ProfileIndex, H) ==
  IF ~InCatalog(Offset)
  THEN [Offset |-> 0 - 1, Header |-> H]
  ELSE IF HeaderAt(w, Offset).Name[1] = 0
  THEN [Offset |-> 0 - 1, Header |-> HeaderAt(w, Offset)]
  ELSE IF ProfileIndex = 0
  THEN [Offset |-> Offset, Header |-> HeaderAt(w, Offset)]
  ELSE LoadHeaderFrom(w, NextOffset(Offset, HeaderAt(w, Offset)),
                      ProfileIndex - 1, HeaderAt(w, Offset))

\* LoadProfileHeader
LoadProfileHeader(w, H, ProfileIndex) ==
  IF ProfileIndex >= 0
  THEN LoadHeaderFrom(w, EEPROM_APPDATA_OFFSET, ProfileIndex, H)
  ELSE [Offset |-> 0 - 1, Header |-> H]

\* the phases LoadProfile reads into the block it allocated; a block of no
\* phase is still a block (not NULL): it is kept as one unread phase
PhasesAt(w, Offset, Count) ==
  IF Count <= 0 THEN <<UnreadPhase>>
  ELSE [i \in 1 .. Count |->
          PhaseOf(EEPROM_get(w, Offset + (i - 1) * SizeofPhase, SizeofPhase))]

\* LoadProfile: the result and what is left in ProfileInfo
LoadProfile(w, Info, ProfileIndex) ==
  IF ProfileIndex < 0
  THEN [Result |-> FALSE, ProfileInfo |-> Info]
  ELSE
    LET r == LoadProfileHeader(w, Info.Header, ProfileIndex)
    IN IF r.Offset > 0
       THEN IF AllocSucceeds(r.Header.PhasesCount)
            THEN [Result |-> TRUE,
                  ProfileInfo |->
                    ProfileInfo(r.Header,
                      PhasesAt(w, r.Offset + SizeofHeader, r.Header.PhasesCount))]
            ELSE [Result |-> FALSE,
                  ProfileInfo |->
                    ProfileInfo([r.Header EXCEPT !.Name[1] = 0], NULL)]
       ELSE [Result |-> FALSE, ProfileInfo |-> ProfileInfo(r.Header, Info.lpPhases)]

-----------------------------------------------------------------------------
(* The sketch: active profile, console commands, setup() *)

\* sendResponse / endResponse of the text console
SendResponse(w, status, msg) ==
  Emit(w, [ev |-> "response", status |-> status, msg |-> msg])

\* SendProfileInfo
SendProfileInfo(w) ==
  Emit(w, [ev |-> "profile", idx |-> w.sketch.m_CurrentProfileIndex])

\* FreeProfile
FreeProfile(Profile) ==
  IF Profile.lpPhases # NULL
  THEN ProfileInfo([Profile.Header EXCEPT !.Name[1] = 0], NULL)
  ELSE Profile

\* ActivateProfile( ProfileInfo_t Profile ) without setPhases( NULL, 0 )
ActivateProfileInfo_KeepsList(w, Profile) ==
  LET w2 == [w EXCEPT !.sketch.m_ActiveProfile = FreeProfile(@)]
  IN [w2 EXCEPT !.sketch.m_ActiveProfile = Profile]

\* ActivateProfile( ProfileInfo_t Profile )
ActivateProfileInfo(w, Profile) ==
  LET w1 == setPhases(w, NULL, 0)
      w2 == [w1 EXCEPT !.sketch.m_ActiveProfile = FreeProfile(@)]
  IN [w2 EXCEPT !.sketch.m_ActiveProfile = Profile]

\* ActivateProfile( int ProfileIndex ) without m_CurrentProfileIndex = ProfileIndex
ActivateProfile_KeepsIndex(w, ProfileIndex) ==
  LET r == LoadProfile(w, ProfileInfo(Header(Chars(<<>>, PROFILE_NAME_LENGTH), 0), NULL),
                       ProfileIndex)
  IN IF (ProfileIndex >= 0) /\ r.Result
     THEN [ActivateProfileInfo(w, r.ProfileInfo) EXCEPT !.ret = "true"]
     ELSE [w EXCEPT !.ret = "false"]

\* ActivateProfile( int ProfileIndex )
ActivateProfile(w, ProfileIndex) ==
  LET r == LoadProfile(w, ProfileInfo(Header(Chars(<<>>, PROFILE_NAME_LENGTH), 0), NULL),
                       ProfileIndex)
  IN IF (ProfileIndex >= 0) /\ r.Result
     THEN [ActivateProfileInfo(w, r.ProfileInfo) EXCEPT
             !.sketch.m_CurrentProfileIndex = U16(ProfileIndex), !.ret = "true"]
     ELSE [w EXCEPT !.ret = "false"]

\* CmdProfiles, "cur"
CmdProfilesCur(w) ==
  Emit(w, [ev |-> "response", status |-> "ok",
           msg |-> w.sketch.m_CurrentProfileIndex])

\* CmdProfiles, "sel" with one argument
CmdProfilesSel(w, ProfileIndex) ==
  LET w1 == IF w.oven.m_Running THEN setPhases(w, NULL, 0) ELSE w
      w2 == ActivateProfile(w1, ProfileIndex)
  IN IF w2.ret = "true"
     THEN SendProfileInfo(SendResponse(w2, "ok", ""))
     ELSE SendResponse(w2, "error", "ARGOUTOFRANGE")

\* CmdProfiles, "on" without the m_ActiveProfile.lpPhases == NULL branch
CmdProfilesOn_NoCheck(w) ==
  SendResponse(
    Start(setPhases(w, w.sketch.m_ActiveProfile.lpPhases,
                    w.sketch.m_ActiveProfile.Header.PhasesCount)),
    "ok", "")

\* CmdProfiles, "on" without argument
CmdProfilesOn(w) ==
  IF w.sketch.m_ActiveProfile.lpPhases = NULL
  THEN SendResponse(w, "error", "ARGINVALIDOPT")
  ELSE SendResponse(
         Start(setPhases(w, w.sketch.m_ActiveProfile.lpPhases,
                         w.sketch.m_ActiveProfile.Header.PhasesCount)),
         "ok", "")

\* CmdProfiles, "off" without argument
CmdProfilesOff(w) == SendResponse(setPhases(w, NULL, 0), "ok", "")

\* Profile.Header.Name after memcpy( &Profile.Header.Name[0], Name, NameLen ):
\* the bytes past NameLen keep what the stack held (fill)
DraftName(Name, fill) ==
  [i \in 1 .. PROFILE_NAME_LENGTH |-> IF i <= Len(Name) THEN Name[i] ELSE fill]

\* "nw" after ActivateProfile( Profile ), c the result of GetProfilesCount()
NewProfileIndex(w, c) ==
  IF c.hangs
  THEN [w EXCEPT !.sketch.pc = "hung"]
  ELSE SendProfileInfo(
         SendResponse([w EXCEPT !.sketch.m_CurrentProfileIndex = U16(c.Count)],
                      "ok", ""))

\* CmdProfiles, "nw" with two arguments: Name and the value of atoi( arg 2 )
CmdProfilesNw(w, Name, PhasesCount, fill) ==
  IF (Len(Name) >= PROFILE_NAME_LENGTH - 1) \/ (PhasesCount < 1)
  THEN SendResponse(w, "error", "ARGOUTOFRANGE")
  ELSE IF AllocSucceeds(PhasesCount)
  THEN NewProfileIndex(
         ActivateProfileInfo(w,
           ProfileInfo(Header(DraftName(Name, fill), PhasesCount),
                       [i \in 1 .. PhasesCount |-> UnreadPhase])),
         GetProfilesCount(w))
  ELSE SendResponse(w, "error", "NOMEMORY")

\* CmdReadInput with one argument, up to its loop: the response is begun and
\* the first reading of the pin is sent (pval = -1 differs from any reading)
CmdReadInput(w, Index) ==
  [Emit(SendResponse(w, "ok", ""), [ev |-> "in", Index |-> Index]) EXCEPT
     !.sketch.pc = IF @ = "ask" THEN "CmdReadInput/ask" ELSE "CmdReadInput/loop"]

\* CmdReadInput once hasNewInput() is true: endResponse() and return
CmdReadInputEnds(w) ==
  [w EXCEPT !.sketch.pc = IF @ = "CmdReadInput/ask" THEN "ask" ELSE "loop"]

\* CmdEEPROM, "fmt"
CmdEEPROMFmt(w) ==
  SendResponse(EEPROMRegisterDefaultProfiles(EEPROMFormat(w)), "ok", "")

\* setup() from the LoadProfile call on (Result goes out of scope)
SetupLoad(w) ==
  LET r == LoadProfile(w, w.sketch.m_ActiveProfile, 0)
      w1 == [w EXCEPT !.sketch.m_ActiveProfile = r.ProfileInfo,
                      !.sketch.m_CurrentProfileIndex = IF r.Result THEN 0 ELSE @,
                      !.sketch.pc = "loop", !.sketch.Result = FALSE]
  IN SetPIDTunings(w1, PID_KP)

\* setup() up to the Ask() dialog, and all of it where the signature is right
Setup(w) ==
  LET w1 == [w EXCEPT !.sketch.Result = FALSE,
                      !.sketch.m_CurrentProfileIndex = U16(0 - 1),
                      !.sketch.m_ActiveProfile.lpPhases = NULL,
                      !.sketch.m_ActiveProfile.Header.Name[1] = 0]
  IN IF EEPROMCheckSignature(w1)
     THEN SetupLoad(w1)
     ELSE [w1 EXCEPT !.sketch.pc = "ask"]

\* Ask() in setup(): a key press; OK makes Ask return true, CANCEL false
AskKey(w, Key) ==
  CASE Key \in {"UP", "DOWN"} -> [w EXCEPT !.sketch.Result = ~@]
    [] Key = "CANCEL" -> SetupLoad(w)
    [] Key = "OK" -> SetupLoad(EEPROMRegisterDefaultProfiles(EEPROMFormat(w)))

\* setNextProfile
setNextProfile(w) ==
  SendProfileInfo(
    ActivateProfile(setPhases(w, NULL, 0),
                    Int16(U16(w.sketch.m_CurrentProfileIndex + 1))))

\* setPrevProfile
setPrevProfile(w) ==
  SendProfileInfo(
    ActivateProfile(setPhases(w, NULL, 0),
                    Int16(U16(w.sketch.m_CurrentProfileIndex - 1))))

\* Ask() called by loop(): the dialog opens with the answer NO
OpenDialog(w, pc) == [w EXCEPT !.sketch.pc = pc, !.sketch.Result = FALSE]

\* loop(), keyboard events: the key checkKeys() returned
LoopKey(w, Key) ==
  IF w.oven.m_Running
  THEN IF Key = "CANCEL" THEN OpenDialog(w, "ask/disable") ELSE w
  ELSE IF (Key = "OK") /\ (w.sketch.m_ActiveProfile.lpPhases # NULL)
  THEN OpenDialog(w, "ask/enable")
  ELSE IF Key = "UP" THEN setNextProfile(w)
  ELSE IF Key = "DOWN" THEN setPrevProfile(w)
  ELSE w

\* loop() after Ask() has returned true with the answer in Result
Confirmed(w) ==
  IF ~w.sketch.Result THEN w
  ELSE IF w.sketch.pc = "ask/disable"
  THEN setPhases(w, NULL, 0)
  ELSE Start(setPhases(w, w.sketch.m_ActiveProfile.lpPhases,
                       w.sketch.m_ActiveProfile.Header.PhasesCount))

\* Ask() in loop(): a key press in the dialog
LoopAskKey(w, Key) ==
  CASE Key \in {"UP", "DOWN"} -> [w EXCEPT !.sketch.Result = ~@]
    [] Key = "CANCEL" -> [w EXCEPT !.sketch.pc = "loop", !.sketch.Result = FALSE]
    [] Key = "OK" ->
         [Confirmed(w) EXCEPT !.sketch.pc = "loop", !.sketch.Result = FALSE]

-----------------------------------------------------------------------------
(* The sketch as a state machine: setup(), then loop(); the Ask() dialog   *)
(* of setup() serves doCycle() and the console like loop() does.           *)

\* a name of one char ("x") and one of PROFILE_NAME_LENGTH - 1 chars
ShortName == <<120>>
LongName == [i \in 1 .. PROFILE_NAME_LENGTH - 1 |-> 120]

\* the EEPROM as delivered (all ones)
BlankCells == [a \in 0 .. EEPROM_length - 1 |-> 255]

\* an EEPROM with the given cells
StoreOf(cells) == [EEPROM |-> [cells |-> cells, outside |-> FALSE], ret |-> "void"]

\* the catalog as EEPROMFormat and EEPROMRegisterDefaultProfiles leave it
FormattedCells == EEPROMFormat(StoreOf(BlankCells)).EEPROM.cells
DefaultCells == EEPROMRegisterDefaultProfiles(StoreOf(FormattedCells)).EEPROM.cells

\* a one-phase profile as another program may have left it after 9 bytes
\* that are not the signature
ForeignProfile ==
  ProfileInfo(Header(Chars(ShortName, PROFILE_NAME_LENGTH), 1),
              <<NamedPhase(ShortName, MaxTemp, 0, 0)>>)
ForeignCells ==
  EEPROM_put(EEPROM_put(StoreOf([a \in 0 .. EEPROM_length - 1 |-> 0]),
                        EEPROM_SIGNATURE_OFFSET, [i \in 1 .. EEPROM_SIGNATURE_LENGTH |-> 255]),
             EEPROM_APPDATA_OFFSET,
             HeaderBytes(ForeignProfile.Header) \o PhasesImage(ForeignProfile)).EEPROM.cells

\* what the EEPROM may hold when the sketch boots
BootStores == {BlankCells, DefaultCells, ForeignCells}

\* power-on: the statics are zero-initialised, setup() has not run
AppInit ==
  /\ ControllerInit(0)
  /\ EEPROM \in [cells : BootStores, outside : {FALSE}]
  /\ sketch = [pc |-> "setup", Result |-> FALSE, m_CurrentProfileIndex |-> 0,
               m_ActiveProfile |-> NoProfile]

\* setup(), up to the dialog or to its end
SetupOp ==
  /\ sketch.pc = "setup"
  /\ \E w \in {Setup(World)} : Commit(w, Called("setup", w))

\* Which block of the heap the controller's m_lpPhases points to after an
\* operation of the sketch that ends in w: "active" is the block of
\* m_ActiveProfile.lpPhases, "other" a block the sketch has lost the pointer
\* to, "freed" a block given back with free(). The operation has handed the
\* active block to setPhases (set), has run FreeProfile( m_ActiveProfile ) on
\* a block (freed), or has had LoadProfile overwrite m_ActiveProfile.lpPhases
\* (replaced).
HeldAfter(w, set, freed, replaced) ==
  IF w.oven.m_lpPhases = NULL THEN "none"
  ELSE IF set THEN "active"
  ELSE IF (hist.held = "active") /\ freed THEN "freed"
  ELSE IF (hist.held = "active") /\ replaced THEN "other"
  ELSE hist.held

\* the operation that ended in w with the result ret has run
\* FreeProfile( m_ActiveProfile ) on a block
FreedActive(ret) == (ret = "true") /\ (sketch.m_ActiveProfile.lpPhases # NULL)

\* the command that ended in w has not answered with an error
NoErrorResponse(w) ==
  \A i \in 1 .. Len(w.events) :
    (w.events[i].ev = "response") => (w.events[i].status # "error")

\* a key pressed in the dialog of setup(); arg: the key and the answer shown
\* when it was pressed
AskKeyOp ==
  /\ sketch.pc = "ask"
  /\ \E Key \in {"UP", "DOWN", "CANCEL", "OK"} :
       \E w \in {AskKey(World, Key)} :
         Commit(w, [Called("Ask", w) EXCEPT
                      !.arg = [Key |-> Key, Result |-> sketch.Result],
                      !.held = HeldAfter(w, FALSE, FALSE,
                                 (Key \in {"CANCEL", "OK"}) /\
                                 (LoadProfileHeader(w, NoProfile.Header, 0).Offset > 0))])

\* a dialog whose loop calls neither doCycle() nor handleInput()
Serving_LoopOnly == sketch.pc = "loop"

\* the console is served: by loop() and by the dialog
Serving == sketch.pc \in {"ask", "loop", "ask/enable", "ask/disable"}

\* a console command is received: MaxCmds commands are followed
Received == Serving /\ (hist.cmds < MaxCmds)

\* bookkeeping of a console command
Handled(name, w) == [Called(name, w) EXCEPT !.cmds = @ + 1]

\* doCycle() called by loop() or by the dialog; a run is followed for the
\* first MaxRunTime ms of a phase
AppCycle ==
  /\ Serving
  /\ oven.m_Running => (clock.sincePhaseStart < MaxRunTime)
  /\ DoCycle

\* "p cur"
HostCur ==
  /\ Received
  /\ \E w \in {CmdProfilesCur(World)} : Commit(w, Handled("p cur", w))

\* the arguments of "p sel" followed: atoi() of it
SelArgs == {0 - 1, 0, 1, 2}

\* "p sel <ProfileIndex>"
HostSel ==
  /\ Received
  /\ \E ProfileIndex \in SelArgs :
       \E w \in {CmdProfilesSel(World, ProfileIndex)} :
         Commit(w, [Handled("p sel", w) EXCEPT
                      !.arg = ProfileIndex, !.ret = w.ret,
                      !.held = HeldAfter(w, FALSE, FreedActive(w.ret), FALSE)])

\* the handler of "p on" runs
OnHandled ==
  \E w \in {CmdProfilesOn(World)} :
    Commit(w, [Handled("p on", w) EXCEPT
                 !.held = HeldAfter(w, sketch.m_ActiveProfile.lpPhases # NULL,
                                    FALSE, FALSE)])

\* "p on"
HostOn == Received /\ OnHandled

\* "p off"
HostOff ==
  /\ Received
  /\ \E w \in {CmdProfilesOff(World)} : Commit(w, Handled("p off", w))

\* the phase counts of "p nw" followed: atoi() of the argument; the last one is
\* the first count whose phases the heap cannot hold
NwCounts == {0, 1, (HeapBytes \div SizeofPhase) + 1}

\* the handler of "p nw" runs
NwHandled ==
     \E Name \in {ShortName, LongName}, PhasesCount \in NwCounts, fill \in {0, 120} :
       \E w \in {CmdProfilesNw(World, Name, PhasesCount, fill)} :
         Commit(w, [Handled("p nw", w) EXCEPT
                      !.arg = <<Name, PhasesCount>>,
                      !.held = HeldAfter(w, FALSE,
                                 FreedActive(Bool(NoErrorResponse(w))), FALSE)])

\* "p nw <Name> <PhasesCount>"
HostNw == Received /\ NwHandled

\* "i <Index>": the handler is left inside its while (!hasNewInput()) loop,
\* which calls neither doCycle() nor handleInput()
HostReadInput ==
  /\ Received
  /\ \E Index \in {0} :
       \E w \in {CmdReadInput(World, Index)} :
         Commit(w, [Handled("i", w) EXCEPT !.arg = Index])

\* the host sends something new: the loop of CmdReadInput ends and the handler
\* returns to where handleInput() was called from
NewInput ==
  /\ sketch.pc \in {"CmdReadInput/loop", "CmdReadInput/ask"}
  /\ \E w \in {CmdReadInputEnds(World)} : Commit(w, Called("hasNewInput", w))

\* "e fmt"
HostFmt ==
  /\ Received
  /\ \E w \in {CmdEEPROMFmt(World)} : Commit(w, Handled("e fmt", w))

AppNext ==
  \/ SetupOp \/ AskKeyOp \/ AppCycle
  \/ HostCur \/ HostSel \/ HostOn \/ HostOff \/ HostNw \/ HostFmt
  \/ HostReadInput \/ NewInput

AppSpec == AppInit /\ [][AppNext]_vars

\* the keys followed while loop() runs: UP and DOWN where the index they ask
\* for is at most MaxIndex
LoopKeys ==
  {"CANCEL", "OK"}
    \cup (IF Int16(U16(sketch.m_CurrentProfileIndex + 1)) <= MaxIndex THEN {"UP"} ELSE {})
    \cup (IF Int16(U16(sketch.m_CurrentProfileIndex - 1)) <= MaxIndex THEN {"DOWN"} ELSE {})

\* a key pressed while loop() runs; arg: the key. These keys are followed
\* like the console commands: MaxCmds of both
KeyPress ==
  /\ sketch.pc = "loop"
  /\ hist.cmds < MaxCmds
  /\ \E Key \in LoopKeys :
       \E w \in {LoopKey(World, Key)} :
         Commit(w, [Called("key", w) EXCEPT
                      !.arg = Key, !.ret = w.ret, !.cmds = @ + 1,
                      !.held = HeldAfter(w, FALSE, FreedActive(w.ret), FALSE)])

\* a key pressed in a dialog of loop(); arg: the key and the answer shown
\* when it was pressed
LoopAskKeyOp ==
  /\ sketch.pc \in {"ask/enable", "ask/disable"}
  /\ \E Key \in {"UP", "DOWN", "CANCEL", "OK"} :
       \E w \in {LoopAskKey(World, Key)} :
         Commit(w, [Called("LoopAsk", w) EXCEPT
                      !.arg = [Key |-> Key, Result |-> sketch.Result],
                      !.held = HeldAfter(w, (sketch.pc = "ask/enable") /\ (Key = "OK")
                                              /\ sketch.Result,
                                         FALSE, FALSE)])

\* The sketch with its keypad: the commands that select, start and stop a
\* profile, the keys and doCycle()
KeyNext ==
  \/ SetupOp \/ AskKeyOp \/ AppCycle
  \/ HostSel \/ HostOn \/ HostOff \/ HostNw
  \/ KeyPress \/ LoopAskKeyOp

KeySpec == AppInit /\ [][KeyNext]_vars

\* power-on with an EEPROM that does not hold the signature
DialogInit == AppInit /\ ~EEPROMCheckSignature(World)

\* a console command is received: MaxDialogCmds commands are followed
DialogReceived == Serving /\ (hist.cmds < MaxDialogCmds)

\* "p on" and "p nw"
DialogOn == DialogReceived /\ OnHandled
DialogNw == DialogReceived /\ NwHandled

\* The boot dialog on an EEPROM without signature: a host that drafts and
\* starts profiles while the dialog waits and after it was answered
DialogNext == SetupOp \/ AskKeyOp \/ AppCycle \/ DialogOn \/ DialogNw

DialogSpec == DialogInit /\ [][DialogNext]_vars


-----------------------------------------------------------------------------
(* The catalog functions on their own: any of them applied to a catalog    *)

\* the profiles handed to EEPROMAppendProfile
AppendSet ==
  { ProfileInfo(OVENCONTROLLER_PROFILEHEADER, OVENCONTROLLER_PHASES),
    ProfileInfo(PBFREEREFLOWCONTROLLER_PROFILEHEADER, PBFREEREFLOWCONTROLLER_PHASES),
    ForeignProfile }

StoreInit ==
  /\ ControllerInit(PID_KP)
  /\ EEPROM \in [cells : {BlankCells, FormattedCells, DefaultCells}, outside : {FALSE}]
  /\ sketch = [pc |-> "store", Result |-> FALSE, m_CurrentProfileIndex |-> 0,
               m_ActiveProfile |-> NoProfile]

\* EEPROMFormat()
StoreFormat ==
  \E w \in {EEPROMFormat([World EXCEPT !.EEPROM.outside = FALSE])} :
    Commit(w, Called("EEPROMFormat", w))

\* EEPROMRegisterDefaultProfiles(): setup() and "e fmt" call it right after
\* EEPROMFormat(), and nothing else calls it
StoreRegister ==
  /\ hist.op = "EEPROMFormat"
  /\ \E w \in {EEPROMRegisterDefaultProfiles([World EXCEPT !.EEPROM.outside = FALSE])} :
       Commit(w, Called("EEPROMRegisterDefaultProfiles", w))

\* EEPROMAppendProfile( lpProfile ); MaxAppends calls are followed
StoreAppend ==
  /\ hist.cmds < MaxAppends
  /\ ~FindFreeEEPROMStart(World).hangs
  /\ \E lpProfile \in AppendSet, r \in BOOLEAN :
       \E w \in {EEPROMAppendProfile([World EXCEPT !.EEPROM.outside = FALSE],
                                     lpProfile, r)} :
         Commit(w, [Called("EEPROMAppendProfile", w) EXCEPT
                      !.ret = w.ret, !.arg = lpProfile, !.cmds = @ + 1])

StoreNext == StoreFormat \/ StoreRegister \/ StoreAppend

StoreSpec == StoreInit /\ [][StoreNext]_vars

-----------------------------------------------------------------------------
(* The catalog scans on their own: any of them applied to any store        *)

\* the PhasesCount for which a record has the size 0: the scan adds
\* sizeof(Header) + PhasesCount * sizeof(phase) to Offset in 16 bits
SelfLoopCount ==
  CHOOSE c \in 0 .. 32767 : U16(SizeofHeader + c * SizeofPhase) = 0

\* the PhasesCount for which a record is as long as a header and one phase,
\* backwards
BackStepCount ==
  CHOOSE c \in (0 - 32768) .. 32767 :
    U16(2 * SizeofHeader + (c + 1) * SizeofPhase) = 0

\* what the PhasesCount of a stored header may be: zero, negative, garbage
CountSet == {0, 1, 0 - 1, 0 - 2, 32767, SelfLoopCount}

\* a store of fill bytes with one header at EEPROM_APPDATA_OFFSET
HeaderCells(n, c, fill) ==
  EEPROM_put(StoreOf([a \in 0 .. EEPROM_length - 1 |-> fill]),
             EEPROM_APPDATA_OFFSET,
             HeaderBytes(Header(Chars(<<n>>, PROFILE_NAME_LENGTH), c))).EEPROM.cells

\* a store whose second header sends the scan back to the first
CycleCells ==
  EEPROM_put(StoreOf(HeaderCells(255, 1, 0)),
             EEPROM_APPDATA_OFFSET + SizeofHeader + SizeofPhase,
             HeaderBytes(Header(Chars(<<255>>, PROFILE_NAME_LENGTH),
                                BackStepCount))).EEPROM.cells

\* the store contents the scans are applied to
ScanStores ==
  BootStores \cup {FormattedCells, CycleCells}
  \cup {HeaderCells(n, c, fill) : n \in {0, 120, 255}, c \in CountSet,
                                  fill \in {0, 255}}

ScanInit ==
  /\ ControllerInit(PID_KP)
  /\ EEPROM \in [cells : ScanStores, outside : {FALSE}]
  /\ sketch = [pc |-> "scan", Result |-> FALSE, m_CurrentProfileIndex |-> 0,
               m_ActiveProfile |-> NoProfile]

\* the call of a scan whose loop yields r: it returns, or it is never left
ScanCalled(name, r, value) ==
  \E w \in {IF r.hangs THEN [World EXCEPT !.sketch.pc = "hung"] ELSE World} :
    Commit(w, [Called(name, w) EXCEPT
                 !.ret = IF r.hangs THEN "never" ELSE "returned",
                 !.arg = IF r.hangs THEN 0 ELSE value])

\* GetProfilesCount()
ScanCount ==
  /\ sketch.pc = "scan"
  /\ \E r \in {GetProfilesCount(World)} : ScanCalled("GetProfilesCount", r, r.Count)

\* FindFreeEEPROMStart()
ScanFree ==
  /\ sketch.pc = "scan"
  /\ \E r \in {FindFreeEEPROMStart(World)} :
       ScanCalled("FindFreeEEPROMStart", r, r.Offset)

\* LoadProfileHeader( Header, ProfileIndex ): its loop counts ProfileIndex
\* down to 0 and is left there at the latest
ScanLoad ==
  /\ sketch.pc = "scan"
  /\ \E ProfileIndex \in (0 - 1) .. MaxIndex :
       \E r \in {LoadProfileHeader(World, NoProfile.Header, ProfileIndex)} :
         ScanCalled("LoadProfileHeader", [hangs |-> FALSE],
                    <<ProfileIndex, r.Offset>>)

ScanNext == ScanCount \/ ScanFree \/ ScanLoad

ScanSpec == ScanInit /\ [][ScanNext]_vars

-----------------------------------------------------------------------------
(* Properties *)

\* the controller runs a phase of its list
InPhase == oven.m_Running /\ IndexInList(World)

\* the phase m_CurrentPhase designates (where InPhase)
CurPhase == oven.m_lpPhases[oven.m_CurrentPhase + 1]

\* the events and duties of the last operation
HasEvent(e) == \E i \in 1 .. Len(events) : events[i] = e
HasEventKind(kind) == \E i \in 1 .. Len(events) : events[i].ev = kind
LastDuty == duties[Len(duties)]

\* C1: every value passed to setHeaterDuty, by whatever operation, lies in
\* [0, 100]; so does the duty the shield holds.
C1_DutyInRange ==
  /\ \A i \in 1 .. Len(duties) : (duties[i] >= 0) /\ (duties[i] <= 100)
  /\ (shield.Duty >= 0) /\ (shield.Duty <= 100)

\* C1 witness: a tick whose PID computation commanded the full duty
C1_FullDutyCommanded ==
  /\ hist.op = "doCycle"
  /\ duties = <<100>>
  /\ HasEventKind("pid")

\* C2 (as stated): once a tick has found the last phase's end condition met,
\* the controller is not running and the heater duty is 0 until a new Start().
C2_CompletedHeaterOff ==
  hist.completed => (~oven.m_Running /\ (shield.Duty = 0))

\* C3: on return from Stop() and from setPhases(NULL, 0) the controller is not
\* running, the last duty commanded is 0, the PID is in manual mode and
\* oven[on=0] has been emitted.
C3_StopIsSynchronous ==
  (hist.op \in {"Stop", "setPhasesNull"}) =>
    /\ ~oven.m_Running
    /\ duties # <<>>
    /\ LastDuty = 0
    /\ shield.Duty = 0
    /\ ~m_PID.inAuto
    /\ HasEvent([ev |-> "oven", on |-> 0])

\* C3 witness: Stop() returned, called while a profile ran with the PID in
\* automatic mode and the heater fully on
C3_StoppedWhileHeating ==
  /\ hist.op = "Stop"
  /\ hist.wasRunning
  /\ oven.m_PID_Output = 100
  /\ oven.m_CurrentPhase >= 0

\* C4: from Stop() or setPhases() until the next successful Start(), every
\* duty commanded is 0 and no operation emits a pid[...] event.
C4_NoPIDAfterStop ==
  hist.stopped =>
    /\ \A i \in 1 .. Len(duties) : duties[i] = 0
    /\ ~HasEventKind("pid")
    /\ shield.Duty = 0

\* C4 witness: a tick after a stop that interrupted a heating profile
C4_TickAfterStop ==
  /\ hist.stopped
  /\ hist.op = "doCycle"
  /\ hist.starts >= 1
  /\ ~hist.completed
  /\ oven.m_PID_Output = 100

\* C5 (as stated): while the controller runs, m_CurrentPhase lies in
\* [0, m_PhasesCount).
C5_RunningIndexInRange ==
  oven.m_Running =>
    (oven.m_CurrentPhase >= 0) /\ (oven.m_CurrentPhase < oven.m_PhasesCount)

\* C6 (as stated): while a phase runs, the setpoint lies between the phase's
\* start temperature and its EndTemp.
C6_SetpointWithinPhase ==
  InPhase =>
    /\ oven.m_PID_Setpoint >= Min2(oven.m_StartTemp, CurPhase.EndTemp) * TempScale
    /\ oven.m_PID_Setpoint <= Max2(oven.m_StartTemp, CurPhase.EndTemp) * TempScale

\* C7: a phase with Duration < 0 is left only by Stop() or setPhases(): after
\* any other operation the controller still runs that phase.
C7_IndefiniteHold ==
  [][ (InPhase /\ (CurPhase.Duration < 0)
         /\ (hist'.op \notin {"Stop", "setPhases", "setPhasesNull"}))
      => /\ oven'.m_Running
         /\ oven'.m_CurrentPhase = oven.m_CurrentPhase
         /\ ~hist'.transitioned ]_vars

\* C7 witness: a tick in a Duration < 0 phase long after its start, the
\* setpoint at EndTemp and the sensor at EndTemp
C7_HoldOutlastsEverything ==
  /\ InPhase
  /\ CurPhase.Duration < 0
  /\ hist.op = "doCycle"
  /\ hist.sampled
  /\ hist.ElapsedPhaseTime = MaxElapsed
  /\ oven.m_Slope = 0
  /\ oven.m_PID_Input = CurPhase.EndTemp

\* C8 (as stated): a phase with Duration > 0 is over Duration seconds after
\* its start: no envelope tick later than that leaves the phase running.
C8_EndsAtDuration ==
  ( /\ hist.op = "doCycle"
    /\ hist.sampled
    /\ ~hist.transitioned
    /\ InPhase
    /\ CurPhase.Duration > 0 )
  => hist.ElapsedPhaseTime <= 1000 * CurPhase.Duration

\* C8 (amended): the Duration of a phase is a minimum.  A Duration > 0 phase
\* is never left by a tick before Duration seconds of phase time, whatever the
\* sensor reads, and an envelope tick leaves it exactly when the duration has
\* elapsed and the slope is zero (the setpoint has arrived at EndTemp).
C8_DurationIsMinimum ==
  ( /\ hist.op = "doCycle"
    /\ hist.sampled
    /\ hist.lpCurrentPhase.Duration > 0 )
  => /\ hist.transitioned =>
          hist.ElapsedPhaseTime >= 1000 * hist.lpCurrentPhase.Duration
     /\ (~hist.transitioned /\ (oven.m_Slope = 0)) =>
          hist.ElapsedPhaseTime < 1000 * hist.lpCurrentPhase.Duration

\* C8 witness: a phase with a configured slope left later than its Duration,
\* when its ramp arrived
C8_LeftAfterDuration ==
  /\ hist.op = "doCycle"
  /\ hist.transitioned
  /\ hist.lpCurrentPhase.Duration > 0
  /\ hist.lpCurrentPhase.Slope > 0
  /\ hist.ElapsedPhaseTime > 1000 * hist.lpCurrentPhase.Duration + 500

\* the sensor reading read by the last tick is past the phase's EndTemp
Crossed ==
  /\ InPhase
  /\ hist.op = "doCycle"
  /\ \/ (oven.m_StartTemp <= CurPhase.EndTemp) /\ (oven.m_PID_Input >= CurPhase.EndTemp)
     \/ (oven.m_StartTemp > CurPhase.EndTemp) /\ (oven.m_PID_Input <= CurPhase.EndTemp)

\* C9 (as stated): in a Duration = 0 phase, once the sensor is past EndTemp
\* and ticks keep coming, the phase is left (or stopped, or the sensor falls
\* back).
C9_CrossingEndsPhase ==
  (Crossed /\ (CurPhase.Duration = 0))
    ~> (hist.transitioned \/ ~oven.m_Running \/ ~Crossed)

\* C10 (as stated): a phase started with a nonzero configured Slope of the
\* sign of EndTemp - StartTemp ramps at that slope.
C10_ConfiguredSlopeUsed ==
  ( /\ InPhase
    /\ HasEventKind("phase")
    /\ \/ (CurPhase.Slope > 0) /\ (CurPhase.EndTemp > oven.m_StartTemp)
       \/ (CurPhase.Slope < 0) /\ (CurPhase.EndTemp < oven.m_StartTemp) )
  => oven.m_Slope = CurPhase.Slope * SlopeDen

\* C11 (as stated): Start() without a phase list returns false, leaves the
\* controller not running, emits no event and starts no phase; Start() of an
\* idle controller with a phase list returns true with the controller running
\* phase 0, the process and phase start times captured, and the phase[...]
\* event of phase 0 followed by oven[on=1].
C11_StartEntersPhaseZero ==
  ((hist.op = "Start") /\ ~hist.wasRunning) =>
    IF oven.m_lpPhases = NULL
    THEN /\ hist.ret = "false"
         /\ ~oven.m_Running
         /\ events = <<>>
         /\ duties = <<>>
    ELSE /\ hist.ret = "true"
         /\ oven.m_Running
         /\ oven.m_CurrentPhase = 0
         /\ clock.sinceProcessStart = 0
         /\ clock.sincePhaseStart = 0
         /\ Len(events) = 2
         /\ events[1].ev = "phase"
         /\ events[2] = [ev |-> "oven", on |-> 1]

-----------------------------------------------------------------------------
(* Properties of the sketch: boot, catalog, host commands *)

\* the profile the catalog holds at ProfileIndex, as LoadProfile() returns it
Loaded(ProfileIndex) == LoadProfile(World, NoProfile, ProfileIndex)

\* the dialog of setup() was just answered with Key
Answered(Key) == (hist.op = "Ask") /\ (hist.arg.Key = Key)

\* C12 (as stated): when the signature is invalid at boot and the user confirms
\* the reformat ([YES] shown, OK pressed), boot ends with two profiles in the
\* catalog, the active profile being catalog index 0, and the controller not
\* running.
C12_ConfirmedReformatBoot ==
  (Answered("OK") /\ hist.arg.Result) =>
    /\ GetProfilesCount(World).Count = 2
    /\ sketch.m_CurrentProfileIndex = 0
    /\ Loaded(0).Result
    /\ sketch.m_ActiveProfile = Loaded(0).ProfileInfo
    /\ ~oven.m_Running

\* C13 (as stated): when the signature is invalid at boot and the user refuses
\* the reformat (CANCEL), the step that ends the dialog leaves every cell of
\* the store as it was and boot ends with an empty active profile (no name, no
\* phase list) and the controller not running, whatever the catalog holds.
C13_RefusedReformatBoot ==
  [][((hist'.op = "Ask") /\ (hist'.arg.Key = "CANCEL")) =>
       /\ EEPROM'.cells = EEPROM.cells
       /\ sketch'.m_ActiveProfile.lpPhases = NULL
       /\ sketch'.m_ActiveProfile.Header.Name[1] = 0
       /\ ~oven'.m_Running]_vars

\* the catalog before and after a step, as the catalog functions see it
Before == World
After == [World EXCEPT !.EEPROM = EEPROM']

\* the step is a call of EEPROMAppendProfile() that returned ret
Appended(ret) == (hist'.op = "EEPROMAppendProfile") /\ (hist'.ret = ret)

\* two profiles with the same bytes: header and every phase
SameProfile(a, b) ==
  /\ HeaderBytes(a.Header) = HeaderBytes(b.Header)
  /\ PhasesImage(a) = PhasesImage(b)

\* C14 (as stated): for every profile and every catalog on which
\* EEPROMAppendProfile() reports success, the count grows by exactly one and
\* LoadProfile( old count ) returns the appended profile, header and phases.
C14_AppendThenLoad ==
  [][Appended("true") =>
       /\ GetProfilesCount(After).Count = GetProfilesCount(Before).Count + 1
       /\ LoadProfile(After, NoProfile, GetProfilesCount(Before).Count).Result
       /\ SameProfile(
            LoadProfile(After, NoProfile, GetProfilesCount(Before).Count).ProfileInfo,
            hist'.arg)]_vars

\* the bytes a profile takes in the catalog
RecordSize(Profile) == SizeofHeader + Profile.Header.PhasesCount * SizeofPhase

\* where EEPROMAppendProfile() finds the free space before the step
FreeBefore == FindFreeEEPROMStart(Before).Offset

\* C15 (as stated): EEPROMAppendProfile() fails when there is no room: when
\* there is no free offset, or the record does not fit between the free offset
\* and the end of the store, it returns false and writes nothing; it never
\* writes outside the store and never changes a cell below the free offset.
C15_AppendFailsWithoutRoom ==
  [][(hist'.op = "EEPROMAppendProfile") =>
       /\ ((FreeBefore <= 0) \/ (FreeBefore + RecordSize(hist'.arg) > EEPROM_length))
            => ((hist'.ret = "false") /\ (EEPROM'.cells = EEPROM.cells))
       /\ ~EEPROM'.outside
       /\ \A a \in 0 .. FreeBefore - 1 : EEPROM'.cells[a] = EEPROM.cells[a]]_vars

\* the catalog entry at ProfileIndex loads, and is the profile Profile
Holds(ProfileIndex, Profile) ==
  /\ Loaded(ProfileIndex).Result
  /\ SameProfile(Loaded(ProfileIndex).ProfileInfo, Profile)
  /\ Len(Loaded(ProfileIndex).ProfileInfo.lpPhases) = Profile.Header.PhasesCount

\* the catalog right after EEPROMFormat(), EEPROMRegisterDefaultProfiles()
\* holds the two default tables of the program, in their order, and no more
DefaultsStored ==
  /\ GetProfilesCount(World).Count = 2
  /\ OVENCONTROLLER_PROFILEHEADER.PhasesCount = 2
  /\ Holds(0, ProfileInfo(OVENCONTROLLER_PROFILEHEADER, OVENCONTROLLER_PHASES))
  /\ PBFREEREFLOWCONTROLLER_PROFILEHEADER.PhasesCount = 8
  /\ Holds(1, ProfileInfo(PBFREEREFLOWCONTROLLER_PROFILEHEADER,
                          PBFREEREFLOWCONTROLLER_PHASES))
  /\ ~Loaded(2).Result

\* the names of the eight reflow phases as specified: Preheat-1, Preheat-2,
\* Soak-1, Soak-2, Reflow-1, Reflow-2, Cooling, Done(HOT)
SpecifiedReflowNames ==
  << <<80, 114, 101, 104, 101, 97, 116, 45, 49>>,
     <<80, 114, 101, 104, 101, 97, 116, 45, 50>>,
     <<83, 111, 97, 107, 45, 49>>,
     <<83, 111, 97, 107, 45, 50>>,
     <<82, 101, 102, 108, 111, 119, 45, 49>>,
     <<82, 101, 102, 108, 111, 119, 45, 50>>,
     <<67, 111, 111, 108, 105, 110, 103>>,
     <<68, 111, 110, 101, 40, 72, 79, 84, 41>> >>

\* C16 (as stated): EEPROMFormat() followed by EEPROMRegisterDefaultProfiles()
\* yields a catalog of exactly two profiles, in this order: index 0 "Oven
\* Controller" with 2 phases, index 1 "PbFree - Reflow" with 8 phases, whose
\* headers and phases match the specified defaults: the stored tables, and
\* for the reflow profile the eight specified phase names.
C16_FormatThenDefaults ==
  (hist.op = "EEPROMRegisterDefaultProfiles") =>
    /\ DefaultsStored
    /\ \A i \in 1 .. 8 :
         Loaded(1).ProfileInfo.lpPhases[i].Name
           = Chars(SpecifiedReflowNames[i], MAX_PHASENAME_LEN)

\* the response of the command handled by the step
Response == events'[Len(events')]

\* C17 (as stated): the store is written only while the controller is not
\* running: "e fmt" received while m_Running is rejected with an error
\* response and leaves every cell of the store as it was.
C17_FormatRejectedWhileRunning ==
  [][((hist'.op = "e fmt") /\ oven.m_Running) =>
       /\ Response.ev = "response"
       /\ Response.status = "error"
       /\ EEPROM'.cells = EEPROM.cells]_vars

\* the step handled a command that fails validation: "p sel" with an index
\* that is not in the catalog, "p nw" with a name of PROFILE_NAME_LENGTH - 1
\* characters or more, or with a phase count below 1
FailsValidation ==
  \/ (hist'.op = "p sel") /\ (hist'.ret = "false")
  \/ /\ hist'.op = "p nw"
     /\ (Len(hist'.arg[1]) >= PROFILE_NAME_LENGTH - 1) \/ (hist'.arg[2] < 1)

\* C18 (as stated): a command that fails validation reports the error and
\* changes no state: the running flag, the heater duty, the active profile
\* and the active profile index are as before the command.
C18_RejectedCommandChangesNothing ==
  [][FailsValidation =>
       /\ Response.ev = "response"
       /\ Response.status = "error"
       /\ oven'.m_Running = oven.m_Running
       /\ shield'.Duty = shield.Duty
       /\ sketch'.m_ActiveProfile = sketch.m_ActiveProfile
       /\ sketch'.m_CurrentProfileIndex = sketch.m_CurrentProfileIndex]_vars

\* the last command was a "p sel" that succeeded
Selected == (hist.op = "p sel") /\ (hist.ret = "true")

\* C19: a successful "p sel <idx>" stops the controller first and then makes
\* catalog entry idx the active profile: afterwards the controller is not
\* running, its PID is in manual mode and it holds no phase list, the heater
\* duty is 0 (and 0 is all that was commanded), the active profile is what
\* LoadProfile( idx ) returns, m_CurrentProfileIndex is idx and "p cur" reports
\* it, and the events of the command are oven[on=0] events of the stop, then
\* the ok response, then profile[idx=..].
C19_SelectStopsThenActivates ==
  Selected =>
    /\ ~oven.m_Running
    /\ ~m_PID.inAuto
    /\ oven.m_lpPhases = NULL
    /\ shield.Duty = 0
    /\ duties # <<>>
    /\ \A i \in 1 .. Len(duties) : duties[i] = 0
    /\ Loaded(hist.arg).Result
    /\ sketch.m_ActiveProfile = Loaded(hist.arg).ProfileInfo
    /\ sketch.m_CurrentProfileIndex = hist.arg
    /\ CmdProfilesCur(World).events[Len(CmdProfilesCur(World).events)]
         = [ev |-> "response", status |-> "ok", msg |-> hist.arg]
    /\ Len(events) >= 3
    /\ events[Len(events)] = [ev |-> "profile", idx |-> hist.arg]
    /\ events[Len(events) - 1] = [ev |-> "response", status |-> "ok", msg |-> ""]
    /\ \A i \in 1 .. Len(events) - 2 : events[i] = [ev |-> "oven", on |-> 0]

\* C19 witness: "p sel 1" succeeded while the controller was running another
\* profile
C19_SelectedWhileRunning ==
  /\ Selected
  /\ hist.wasRunning
  /\ hist.arg = 1
  /\ sketch.m_ActiveProfile.Header.PhasesCount = 8

\* the last command was a "p on" received while there was no active profile
\* ("p on" leaves m_ActiveProfile as it is)
OnWithoutProfile == (hist.op = "p on") /\ (sketch.m_ActiveProfile.lpPhases = NULL)

\* C20: "p on" without an active profile answers with the error
\* ARGINVALIDOPT and nothing else: the controller is not started (m_Running is
\* as before, no phase list is installed), no duty is commanded, and no oven
\* or phase event is emitted.
C20_OnWithoutProfileRejected ==
  OnWithoutProfile =>
    /\ events = <<[ev |-> "response", status |-> "error", msg |-> "ARGINVALIDOPT"]>>
    /\ oven.m_Running = hist.wasRunning
    /\ ~HasEventKind("oven")
    /\ ~HasEventKind("phase")
    /\ duties = <<>>

\* C20 witness: "p on" received by loop() after a boot that left no active
\* profile
C20_OnAfterEmptyBoot ==
  /\ OnWithoutProfile
  /\ sketch.pc = "loop"
  /\ ~oven.m_Running
  /\ HasEvent([ev |-> "response", status |-> "error", msg |-> "ARGINVALIDOPT"])

\* the step handled a command for which AllocProfilePhases() failed: "p sel"
\* of an entry the catalog holds, or "p nw" with arguments that pass validation
OutOfMemory ==
  \/ /\ hist'.op = "p sel"
     /\ hist'.arg >= 0
     /\ LoadProfileHeader(Before, NoProfile.Header, hist'.arg).Offset > 0
     /\ ~AllocSucceeds(LoadProfileHeader(Before, NoProfile.Header, hist'.arg).Header.PhasesCount)
  \/ /\ hist'.op = "p nw"
     /\ Len(hist'.arg[1]) < PROFILE_NAME_LENGTH - 1
     /\ hist'.arg[2] >= 1
     /\ ~AllocSucceeds(hist'.arg[2])

\* C21 (as stated): when the phase memory of a profile being loaded ("p sel")
\* or created ("p nw") cannot be reserved, the command answers with the error
\* NOMEMORY and the active profile, its index and the running flag are as
\* before the command.
C21_NoMemoryChangesNothing ==
  [][OutOfMemory =>
       /\ Response = [ev |-> "response", status |-> "error", msg |-> "NOMEMORY"]
       /\ sketch'.m_ActiveProfile = sketch.m_ActiveProfile
       /\ sketch'.m_CurrentProfileIndex = sketch.m_CurrentProfileIndex
       /\ oven'.m_Running = oven.m_Running]_vars

\* the arguments of the "p nw" the step handled
NwName == hist'.arg[1]
NwCount == hist'.arg[2]

\* C22 (as stated): "p nw <name> <n>" accepts every name of 1 to 19
\* characters with n >= 1 (given the heap holds n phases) and then answers ok,
\* followed by profile[idx=..], with the active profile a draft of n phases, all
\* zero, the controller not running and every cell of the catalog as before;
\* a longer name, or n < 1, is answered with the error ARGOUTOFRANGE.
C22_NewDraftAccepted ==
  [][(hist'.op = "p nw") =>
       IF (Len(NwName) \in 1 .. PROFILE_NAME_LENGTH - 1) /\ (NwCount >= 1)
       THEN AllocSucceeds(NwCount) =>
              /\ Len(events') >= 2
              /\ events'[Len(events') - 1] = [ev |-> "response", status |-> "ok", msg |-> ""]
              /\ Response.ev = "profile"
              /\ sketch'.m_ActiveProfile.Header.PhasesCount = NwCount
              /\ sketch'.m_ActiveProfile.lpPhases = [i \in 1 .. NwCount |-> UnreadPhase]
              /\ ~oven'.m_Running
              /\ EEPROM'.cells = EEPROM.cells
       ELSE Response = [ev |-> "response", status |-> "error", msg |-> "ARGOUTOFRANGE"]]_vars

\* what LoadProfileHeader( Header, ProfileIndex ) returns on the catalog w
Found(w, ProfileIndex) == LoadProfileHeader(w, NoProfile.Header, ProfileIndex)

\* the catalog w is as EEPROMFormat() and appends that fit leave it: the
\* signature, then records, then zeros from the free offset to the end
Sound(w) ==
  /\ EEPROMCheckSignature(w)
  /\ FindFreeEEPROMStart(w).Offset > 0
  /\ \A a \in FindFreeEEPROMStart(w).Offset .. EEPROM_length - 1 : w.EEPROM.cells[a] = 0

\* the step appended a record that fits to a sound catalog
AppendedInside ==
  /\ hist'.op = "EEPROMAppendProfile"
  /\ Sound(Before)
  /\ FreeBefore + RecordSize(hist'.arg) <= EEPROM_length

\* on every catalog LoadProfileHeader( i ) returns an offset exactly for
\* 0 <= i < GetProfilesCount(); the headers are the stored records, one after
\* the other from the start of the catalog, none with an empty name; the scan
\* ends at a record whose Name[0] is 0 (or at the end of the store)
HeadersMatchCount ==
  /\ \A i \in (0 - 1) .. MaxIndex :
       (Found(World, i).Offset > 0) <=> ((0 <= i) /\ (i < GetProfilesCount(World).Count))
  /\ \A i \in 0 .. Min2(MaxIndex, GetProfilesCount(World).Count - 1) :
       /\ Found(World, i).Header = HeaderAt(World, Found(World, i).Offset)
       /\ Found(World, i).Header.Name[1] # 0
       /\ Found(World, i).Offset =
            IF i = 0 THEN EEPROM_APPDATA_OFFSET
            ELSE NextOffset(Found(World, i - 1).Offset, Found(World, i - 1).Header)
  /\ (FindFreeEEPROMStart(World).Offset > 0)
       => (EEPROM.cells[FindFreeEEPROMStart(World).Offset] = 0)

\* a record appended inside a sound catalog becomes the last header, at the
\* free offset, and the headers before it are returned as before
HeadersInInsertionOrder ==
  AppendedInside =>
    /\ \A i \in 0 .. Min2(MaxIndex, GetProfilesCount(Before).Count - 1) :
         Found(After, i) = Found(Before, i)
    /\ GetProfilesCount(Before).Count <= MaxIndex =>
         /\ Found(After, GetProfilesCount(Before).Count).Offset = FreeBefore
         /\ HeaderBytes(Found(After, GetProfilesCount(Before).Count).Header)
              = HeaderBytes(hist'.arg.Header)

\* C23: LoadProfileHeader( i ) returns a header and its offset if and only if
\* 0 <= i < GetProfilesCount(); the headers returned for i = 0 .. count - 1
\* are the records in insertion order; the scan stops at the first record
\* whose Name[0] is 0.
C23_HeadersAreTheRecords ==
  [](HeadersMatchCount) /\ [][HeadersInInsertionOrder]_vars

\* C23 witness: three records were appended one after the other and are
\* returned in that order
C23_ThreeRecordsListed ==
  /\ hist.op = "EEPROMAppendProfile"
  /\ Sound(World)
  /\ GetProfilesCount(World).Count = 3
  /\ Found(World, 2).Offset > 0
  /\ HeaderBytes(Found(World, 2).Header) = HeaderBytes(hist.arg.Header)
  /\ Found(World, 3).Offset < 0

\* the operations that write the store
StoreWriters ==
  {"EEPROMFormat", "EEPROMRegisterDefaultProfiles", "EEPROMAppendProfile",
   "e fmt", "Ask"}

\* C24 (as stated): catalog entries are immutable once written: only format
\* and append change a cell of the store, and an append that reports success
\* changes no cell below the free offset it found, so that LoadProfile( i )
\* returns the same profile as before for every i below the old count.
C24_EntriesImmutable ==
  [][/\ (EEPROM'.cells # EEPROM.cells) => (hist'.op \in StoreWriters)
     /\ Appended("true") =>
          /\ \A a \in 0 .. FreeBefore - 1 : EEPROM'.cells[a] = EEPROM.cells[a]
          /\ \A i \in 0 .. Min2(MaxIndex, GetProfilesCount(Before).Count - 1) :
               LoadProfile(After, NoProfile, i) = LoadProfile(Before, NoProfile, i)]_vars

\* the console commands
HostCommands == {"p cur", "p sel", "p on", "p off", "p nw", "e fmt", "i"}

\* C25 (as stated): no host command handler suspends: once a command is
\* handled its handler has returned to loop() (or to the dialog) without
\* waiting for further input, so that doCycle() is called again.
C25_HandlersReturn ==
  (hist.op \in HostCommands) => Serving

\* the dialog of setup() waits for a key
DialogWaits == sketch.pc = "ask"

-----------------------------------------------------------------------------
(* Properties of the phase envelope and of the phase sequence *)

\* the last operation started the phase the controller is in
PhaseJustStarted ==
  /\ InPhase
  /\ \/ (hist.op = "Start") /\ ~hist.wasRunning
     \/ (hist.op = "doCycle") /\ hist.transitioned

\* from the start temperature to the end temperature of the current phase
Rise == CurPhase.EndTemp - oven.m_StartTemp

\* x taken with the sign that moves toward the end temperature
Toward(x) == IF Rise < 0 THEN 0 - x ELSE x

\* C27 (as stated): at each phase start the effective slope is the configured
\* slope, with its sign set so that the envelope moves toward EndTemp, if the
\* configured slope is > 0; else (EndTemp - start) / Duration if Duration > 0;
\* else MAXIMUM_TEMPERATURE_SLOPE with the sign of (EndTemp - start).  Hence
\* the effective slope never has the sign opposite to (EndTemp - start).
C27_EffectiveSlopeTowardEnd ==
  PhaseJustStarted =>
    /\ oven.m_Slope =
         IF CurPhase.Slope > 0
         THEN Toward(CurPhase.Slope * SlopeDen)
         ELSE IF CurPhase.Duration > 0
         THEN (Rise * SlopeDen) \div CurPhase.Duration
         ELSE IF Rise = 0 THEN oven.m_Slope
         ELSE Toward(MAXIMUM_TEMPERATURE_SLOPE * SlopeDen)
    /\ ~((oven.m_Slope > 0) /\ (Rise < 0))
    /\ ~((oven.m_Slope < 0) /\ (Rise > 0))

\* the last doCycle() ran the envelope of the phase the controller is in
EnvelopeTicked ==
  /\ InPhase
  /\ hist.op = "doCycle"
  /\ hist.sampled
  /\ ~hist.transitioned

\* start and end temperature of the current phase, in setpoint units
StartPoint == oven.m_StartTemp * TempScale
EndPoint == CurPhase.EndTemp * TempScale

\* C28 (as stated): on every envelope tick the setpoint is start_temp +
\* effective slope x elapsed time, clamped at EndTemp (capped on an ascent,
\* floored on a descent); once the setpoint has reached EndTemp the effective
\* slope is zero and the setpoint equals EndTemp for the rest of the phase.
C28_EnvelopeClampedAtEnd ==
  EnvelopeTicked =>
    /\ (StartPoint <= EndPoint) => (oven.m_PID_Setpoint <= EndPoint)
    /\ (StartPoint >= EndPoint) => (oven.m_PID_Setpoint >= EndPoint)
    /\ (oven.m_Slope # 0) =>
         (oven.m_PID_Setpoint = StartPoint + oven.m_Slope * hist.ElapsedPhaseTime)
    /\ (oven.m_Slope = 0) => (oven.m_PID_Setpoint = EndPoint)

\* the phase[...] events of the step
PhaseEvents == SelectSeq(events', LAMBDA e : e.ev = "phase")

\* the step has started phase i of the list: the index is i, start_temp is the
\* sensor reading, the setpoint is start_temp and the step has sent one
\* phase[...] event with the configured end temperature, slope and duration
PhaseStarted(i) ==
  /\ oven'.m_Running
  /\ oven'.m_CurrentPhase = i
  /\ i >= 0
  /\ i < oven'.m_PhasesCount
  /\ oven'.m_StartTemp = shield'.m_Average
  /\ oven'.m_PID_Setpoint = oven'.m_StartTemp * TempScale
  /\ PhaseEvents = <<[ev |-> "phase", end |-> oven'.m_lpPhases[i + 1].EndTemp,
                      m |-> oven'.m_lpPhases[i + 1].Slope,
                      t |-> oven'.m_lpPhases[i + 1].Duration]>>

\* the step is a Start() that has set the controller running
RunBegins == (hist'.op = "Start") /\ ~oven.m_Running /\ oven'.m_Running

\* the step is a doCycle() of a running controller
RunningTick == (hist'.op = "doCycle") /\ oven.m_Running

\* one step of a run in which the phases are taken in order
InOrderStep ==
  /\ RunBegins => PhaseStarted(0)
  /\ RunningTick =>
       IF hist'.transitioned
       THEN IF oven.m_CurrentPhase + 1 < oven.m_PhasesCount
            THEN PhaseStarted(oven.m_CurrentPhase + 1)
            ELSE ~oven'.m_Running /\ (PhaseEvents = <<>>)
       ELSE /\ oven'.m_Running
            /\ oven'.m_CurrentPhase = oven.m_CurrentPhase
            /\ PhaseEvents = <<>>
  /\ (~RunBegins /\ ~RunningTick) => (PhaseEvents = <<>>)

\* C29 (as stated): the phases run strictly in order. A run begins in phase 0;
\* a tick in which the terminator of phase i is met starts phase i + 1 (or
\* ends the run after the last phase), a tick in which it is not met keeps
\* the index, so no index is skipped or repeated and a tick makes at most one
\* transition; every phase start takes start_temp from the sensor, sets the
\* setpoint to start_temp and sends one phase[...] event with the configured
\* slope and duration, and no other step sends a phase[...] event.
C29_PhasesInOrder == [][InOrderStep]_vars

\* m_Slope as the envelope update of the step's doCycle() leaves it
SlopeAfterEnvelope ==
  Envelope([Before EXCEPT !.clock.sincePhaseStart = hist'.ElapsedPhaseTime],
           hist'.lpCurrentPhase).oven.m_Slope

\* the step has ended the phase: another phase was started or the run ended
PhaseEnded ==
  \/ PhaseEvents # <<>>
  \/ ~oven'.m_Running
  \/ oven'.m_CurrentPhase # oven.m_CurrentPhase

\* C30: the phase terminator is evaluated only during hold. A doCycle() of a
\* running controller in which m_Slope is nonzero after the envelope update
\* does not end the phase, whatever the duration, the elapsed time and the
\* sensor reading are.
C30_TerminatorOnlyInHold ==
  [][(RunningTick /\ hist'.sampled /\ (SlopeAfterEnvelope # 0)) => ~PhaseEnded]_vars

\* an envelope tick of a ramp left the phase running although the sensor
\* already reads the end temperature of a phase without duration
C30_RampNotEndedAtTemperature ==
  /\ EnvelopeTicked
  /\ oven.m_Slope # 0
  /\ CurPhase.Duration = 0
  /\ oven.m_StartTemp < CurPhase.EndTemp
  /\ oven.m_PID_Input >= CurPhase.EndTemp

-----------------------------------------------------------------------------
(* Properties of one doCycle() and of the events *)

\* the pid[...] events of the step
PidEvents == SelectSeq(events', LAMBDA e : e.ev = "pid")

\* C31: within one doCycle() of a running controller the sensor read comes
\* before the PID computation and the computation before the heater write:
\* the input the PID works on is the sensor value of this cycle, and when the
\* PID computes, the one duty written in the cycle is the output of that
\* computation (the pid[...] event, sent after the write, reports this
\* cycle's input and the duty written); when it does not compute, the cycle
\* writes no duty.
C31_ReadComputeWrite ==
  [][RunningTick =>
       /\ oven'.m_PID_Input = shield'.m_Average
       /\ Len(PidEvents) <= 1
       /\ Len(duties') = Len(PidEvents)
       /\ (PidEvents # <<>>) =>
            /\ PidEvents[1].tmp = shield'.m_Average
            /\ PidEvents[1].out = oven'.m_PID_Output
            /\ duties' = <<oven'.m_PID_Output>>
            /\ shield'.Duty = oven'.m_PID_Output]_vars

\* C31 witness: a cycle in which the sensor value changed and the PID, working
\* on the new value, turned the heater fully on
C31_NewInputFullDuty ==
  /\ hist.op = "doCycle"
  /\ hist.wasRunning
  /\ oven.m_Running
  /\ oven.m_PID_Input = MaxTemp
  /\ oven.m_StartTemp = MinTemp
  /\ HasEventKind("pid")
  /\ duties = <<100>>

\* the oven[...] events of the step
OvenEvents == SelectSeq(events', LAMBDA e : e.ev = "oven")

\* C32 (as stated): an oven[on=v] event is sent exactly when m_Running changes
\* to v: an operation that changes the flag sends one oven event with the new
\* value, an operation that leaves the flag as it was sends none.
C32_OvenEventOnChange ==
  [][IF oven'.m_Running # oven.m_Running
     THEN OvenEvents = <<[ev |-> "oven", on |-> IF oven'.m_Running THEN 1 ELSE 0]>>
     ELSE OvenEvents = <<>>]_vars

\* C33 (as stated): the gains are applied at Start() and not again during the
\* run: from one step of a run to the next the gains the PID works with stay
\* the same, whatever SetPIDTunings() calls are made while the profile runs
\* and whatever phases are started.
C33_GainsFixedDuringRun ==
  [][(oven.m_Running /\ oven'.m_Running) => (m_PID'.gains = m_PID.gains)]_vars

\* the step is a doCycle() of an idle controller in which TEMPLOGSAMPLING_TIME
\* has passed since the last idle sample (the cycle has restarted the interval)
IdleSampleDue ==
  /\ hist'.op = "doCycle"
  /\ ~oven.m_Running
  /\ clock'.sinceTemperatureSample = 0

\* C34 (as stated): while the controller is not running, doCycle() sends a
\* temperature snapshot event every 500 ms: each idle cycle in which the
\* interval has passed sends one temp[...] event.
C34_IdleSnapshotSent ==
  [][IdleSampleDue => (\E i \in 1 .. Len(events') : events'[i].ev = "temp")]_vars

\* C35 (as stated): a doCycle() in which the profile completes (m_Running
\* becomes false) does no PID computation after that: it writes no duty and
\* sends no pid[...] event; every duty written and every pid event sent by
\* doCycle() happens while m_Running is true.
C35_NoPIDAfterCompletion ==
  [][(RunningTick /\ ~oven'.m_Running) =>
       (PidEvents = <<>>) /\ (duties' = <<>>)]_vars

-----------------------------------------------------------------------------
(* Properties of the sketch with its keypad and dialogs *)

\* the controller's phase list is the active profile's: the same block and
\* the same count
RunsActiveProfile ==
  /\ hist.held = "active"
  /\ oven.m_lpPhases = sketch.m_ActiveProfile.lpPhases
  /\ oven.m_PhasesCount = sketch.m_ActiveProfile.Header.PhasesCount

\* C36 (as stated): whenever the controller is running, the phase list it
\* executes is the active profile's phase list (same block, same count),
\* whatever commands and keys were handled, in loop() or inside a dialog.
C36_RunsActiveProfile == oven.m_Running => RunsActiveProfile

\* the step is an operation that has run FreeProfile( m_ActiveProfile ) on a
\* block: a profile activated by "p sel", by "p nw" or by the keys UP / DOWN
FreesActiveBlock ==
  /\ sketch.m_ActiveProfile.lpPhases # NULL
  /\ \/ (hist'.op \in {"p sel", "key"}) /\ (hist'.ret = "true")
     \/ /\ hist'.op = "p nw"
        /\ \E i \in 1 .. Len(events') :
             events'[i] = [ev |-> "response", status |-> "ok", msg |-> ""]

\* C37: the controller never holds a pointer to a freed phase list. Every
\* operation that frees the active profile's block leaves the controller
\* without a phase list and not running, and in no state is the controller's
\* list a block that was freed, so no doCycle() reads freed phases.
C37_NoFreedPhaseList ==
  /\ []((oven.m_lpPhases # NULL) => (hist.held # "freed"))
  /\ [][FreesActiveBlock =>
         (oven'.m_lpPhases = NULL) /\ ~oven'.m_Running /\ (hist'.held = "none")]_vars

\* C37 witness: "p nw" received while the controller ran the active profile:
\* the old block was freed, the draft is the active profile and the
\* controller has no list
C37_DraftReplacesRunningProfile ==
  /\ hist.op = "p nw"
  /\ hist.wasRunning
  /\ sketch.m_ActiveProfile.lpPhases = <<UnreadPhase>>
  /\ oven.m_lpPhases = NULL
  /\ ~oven.m_Running

\* the step is a key press in the boot dialog other than OK with [YES] shown
NotConfirmed ==
  /\ hist'.op = "Ask"
  /\ ~((hist'.arg.Key = "OK") /\ hist'.arg.Result)

\* C38 (as stated): at boot with a bad signature the store is reformatted only
\* if the user answered YES: a key press in the dialog that is not OK with
\* [YES] shown (OK while [NO] is shown, CANCEL, UP, DOWN) leaves every cell of
\* the store as it was.
C38_ReformatOnlyOnYes ==
  [][NotConfirmed => (EEPROM'.cells = EEPROM.cells)]_vars

\* the step is a "p on" received while the controller runs
OnWhileRunning == (hist'.op = "p on") /\ oven.m_Running

\* the first phase of the active profile, as the phase[...] event shows it
FirstActivePhase ==
  [ev |-> "phase", end |-> sketch.m_ActiveProfile.lpPhases[1].EndTemp,
   m |-> sketch.m_ActiveProfile.lpPhases[1].Slope,
   t |-> sketch.m_ActiveProfile.lpPhases[1].Duration]

\* the step has stopped the run and started the active profile again
Restarted ==
  /\ sketch.m_ActiveProfile.lpPhases # NULL
  /\ events' = <<[ev |-> "oven", on |-> 0], FirstActivePhase,
                 [ev |-> "oven", on |-> 1],
                 [ev |-> "response", status |-> "ok", msg |-> ""]>>
  /\ duties' # <<>>
  /\ \A i \in 1 .. Len(duties') : duties'[i] = 0
  /\ shield'.Duty = 0
  /\ oven'.m_Running
  /\ oven'.m_CurrentPhase = 0
  /\ oven'.m_lpPhases = sketch.m_ActiveProfile.lpPhases
  /\ clock'.sinceProcessStart = 0
  /\ clock'.sincePhaseStart = 0

\* C39 (as stated): "p on" received while the controller is running restarts
\* the active profile from phase 0: the run is stopped (oven[on=0], duty 0)
\* and started again with a new process start time, phase[...] of phase 0 and
\* then oven[on=1] are sent; the command is never ignored.
C39_OnRestartsProfile == [][OnWhileRunning => Restarted]_vars

-----------------------------------------------------------------------------
(* Properties of the catalog scans *)

\* a catalog scan was called
ScanOps == {"GetProfilesCount", "FindFreeEEPROMStart", "LoadProfileHeader"}

\* C40 (as stated): GetProfilesCount(), FindFreeEEPROMStart() and
\* LoadProfileHeader( i ) return for every content of the store, whatever
\* the PhasesCount of the stored headers is (zero, negative, garbage).
C40_ScansTerminate == (hist.op \in ScanOps) => (hist.ret = "returned")

====
